---- MODULE Spec2Model ----
(***************************************************************************)
(* Model of the signed ZingMp3 client (class Mp3ApiClient, the variant     *)
(* with the no-argument constructor): the credential cache (getCookie),    *)
(* the request dispatcher (requestZingMp3) and the signature helpers.      *)
(*                                                                         *)
(* JavaScript runs each stretch of code between two awaits atomically, so  *)
(* every action below is one such stretch: it starts when a promise        *)
(* settles (a response arrives, a request throws, a timer fires) and runs  *)
(* up to the next await.                                                   *)
(*                                                                         *)
(* Strings whose characters the code inspects (the set-cookie entries) are *)
(* sequences of one-character strings.  null and "" are both falsy and the *)
(* code only ever tests these values for truthiness, so both are the empty *)
(* sequence here.                                                          *)
(***************************************************************************)
EXTENDS Integers, Sequences, FiniteSets

\* ------------------------------------------------------------------ bounds

\* The clock (seconds since the epoch, relative) runs from 0 to MaxClock.
MaxClock == 1

\* A set-cookie header list has at most MaxHeaders entries.
MaxHeaders == 3

\* The logical calls (tool invocations) that may be in flight together.
Calls == {"c1", "c2"}

\* --------------------------------------------------------------- constants

VERSION == "1.6.34"
SECRET_KEY == "2aa2d1c561e809b267f3638c4a307aab"
API_KEY == "88265e23d4284f25963e6eedac8fbfa3"

\* A loop bound that is one too large.
maxRetriesOneMore == 3 + 1

\* getCookie: const maxRetries = 3
maxRetries == 3

\* The shortest length the heuristic scan rejects: c.length > 10
ScanMinLen == 10

\* setTimeout(resolve, 1000 * attempt)
BackoffUnitMs == 1000

NULL == <<>>

\* ---------------------------------------------------------------- strings

Truthy(s) == Len(s) > 0

Includes(s, ch) == \E i \in 1..Len(s) : s[i] = ch

RECURSIVE TrimStart(_)
TrimStart(s) ==
    IF Len(s) > 0 /\ Head(s) = " " THEN TrimStart(Tail(s)) ELSE s

RECURSIVE TrimEnd(_)
TrimEnd(s) ==
    IF Len(s) > 0 /\ s[Len(s)] = " "
    THEN TrimEnd(SubSeq(s, 1, Len(s) - 1))
    ELSE s

\* String.prototype.trim
Trim(s) == TrimEnd(TrimStart(s))

\* The set-cookie entries the web root may answer with.
HdrEmpty == <<>>
HdrBlank == <<" ", " ">>
HdrShort == <<"a", "=", "b">>
HdrPlain == <<"a", "a", "a", "a", "a", "a", "a", "a", "a", "a", "a">>
HdrSid   == <<" ", "s", "i", "d", "=", "a", "b", "c", "d", "e", "f", "g", " ">>
HdrSemi  == <<"k", ";", "a", "b", "c", "d", "e", "f", "g", "h", "i">>
HdrPad   == <<" ", " ", " ", " ", "a", "=", "b", " ", " ", " ", " ">>

HeaderPool ==
    {HdrEmpty, HdrBlank, HdrShort, HdrPlain, HdrSid, HdrSemi, HdrPad}

SeqsUpTo(S, n) == UNION {[1..k -> S] : k \in 0..n}

\* Every header list of at most MaxHeaders entries (<<>>: header absent).
HeaderLists == SeqsUpTo(HeaderPool, MaxHeaders)

\* The header lists the web root answers with in the dispatcher's runs.
WebRootHeaders ==
    {<<>>, <<HdrSid>>, <<HdrShort, HdrSemi>>}

\* ------------------------------------------------------- credential cache

\* getCookie, lines 164-169: the heuristic scan's test of one entry.
LooksValid(c) ==
    /\ Truthy(c)
    /\ Len(c) > ScanMinLen
    /\ (Includes(c, "=") \/ Includes(c, ";"))

\* Array.prototype.find(...) || null
FindValid(h) ==
    IF \E i \in 1..Len(h) : LooksValid(h[i])
    THEN h[CHOOSE i \in 1..Len(h) :
               LooksValid(h[i]) /\ \A j \in 1..(i - 1) : ~LooksValid(h[j])]
    ELSE NULL

\* A selection that tries index 0 before index 1.
PickHeaderFirst(h) ==
    LET atZero == IF Len(h) > 0 THEN h[1] ELSE NULL
        atOne  == IF ~Truthy(atZero) /\ Len(h) > 1 THEN h[2] ELSE atZero
    IN  IF ~Truthy(atOne) THEN FindValid(h) ELSE atOne

\* getCookie, lines 152-169: the entry picked from a set-cookie list.
PickHeader(h) ==
    LET atOne  == IF Len(h) > 1 THEN h[2] ELSE NULL
        atZero == IF ~Truthy(atOne) /\ Len(h) > 0 THEN h[1] ELSE atOne
    IN  IF ~Truthy(atZero) THEN FindValid(h) ELSE atZero

\* A selection that stores the picked entry as it is, untrimmed.
SelectCookieRaw(h) == IF Len(h) > 0 THEN PickHeader(h) ELSE NULL

\* getCookie, lines 150-176: the credential one response yields, NULL when
\* the attempt counts as failed.
SelectCookie(h) ==
    IF Len(h) > 0
    THEN LET cookieHeader == PickHeader(h)
         IN  IF Truthy(cookieHeader) /\ Len(Trim(cookieHeader)) > 0
             THEN Trim(cookieHeader)
             ELSE NULL
    ELSE NULL

\* getCookie, line 183: the wait after a thrown attempt.
BackoffDelay(attempt) == BackoffUnitMs * attempt

\* -------------------------------------------------------------- signature

getHash256(str) == <<"sha256", str>>

getHmac512(str, key) == <<"hmac512", str, key>>

hashParamNoId(path, ctime) ==
    getHmac512(<<path, getHash256(<<"ctime=", ctime, "version=", VERSION>>)>>,
               SECRET_KEY)

hashParam(path, id, ctime) ==
    getHmac512(<<path, getHash256(<<"ctime=", ctime, "id=", id,
                                    "version=", VERSION>>)>>,
               SECRET_KEY)

\* ------------------------------------------------------------- operations

Ops == {"searchSongs", "fetchLyrics", "fetchStreaming", "fetchArtist",
        "fetchAlbum"}

\* The argument of a call, a string of characters.
Args == {<<"x">>}

\* The operations called when two calls run together: one per signature
\* variant.
MainOps == {"searchSongs", "fetchLyrics"}

OpPath(o) ==
    CASE o = "searchSongs"    -> "/api/v2/search/multi"
      [] o = "fetchLyrics"    -> "/api/v2/lyric/get/lyric"
      [] o = "fetchStreaming" -> "/api/v2/song/get/streaming"
      [] o = "fetchArtist"    -> "/api/v2/page/get/artist"
      [] o = "fetchAlbum"     -> "/api/v2/page/get/playlist"

\* The name of the query parameter that carries the argument.
OpParam(o) ==
    CASE o = "searchSongs" -> "q"
      [] o = "fetchArtist" -> "alias"
      [] OTHER             -> "id"

\* A signing that puts the argument of every operation into the signature.
OpSigWithValue(o, arg, ctime) == hashParam(OpPath(o), arg, ctime)

\* The sig each operation puts into qs.
OpSig(o, arg, ctime) ==
    IF o \in {"searchSongs", "fetchArtist"}
    THEN hashParamNoId(OpPath(o), ctime)
    ELSE hashParam(OpPath(o), arg, ctime)

\* The qs object an operation hands to requestZingMp3.
OpQs(o, arg, ctime) ==
    [name |-> OpParam(o), value |-> arg, sig |-> OpSig(o, arg, ctime)]

\* requestZingMp3, lines 196-201: { ...qs, ctime, version, apiKey }
Params(qs, ctime) ==
    [name |-> qs.name, value |-> qs.value, sig |-> qs.sig, ctime |-> ctime,
     version |-> VERSION, apiKey |-> API_KEY]

\* requestZingMp3, lines 225-232: { ...params, ctime: freshCTIME }; the sig
\* of qs is carried over as it is.
RetryParams(params, freshCTIME) ==
    [params EXCEPT !.ctime = freshCTIME]

\* ------------------------------------------------------------ JSON values

\* A JavaScript value as JSON.parse yields it, plus undefined: its type t,
\* the text s of a string or a number (a sequence of words), and the
\* entries kv of an object or an array, in iteration order, as <<key,
\* value>> pairs.
JV(t, s, kv) == [t |-> t, s |-> s, kv |-> kv]

Undef == JV("undef", <<>>, <<>>)

JNull == JV("null", <<>>, <<>>)

Str(s) == JV("str", s, <<>>)

Num(n) == JV("num", <<n>>, <<>>)

Obj(kv) == JV("obj", <<>>, kv)

Arr(items) == JV("arr", <<>>, [i \in DOMAIN items |-> <<"item", items[i]>>])

Items(v) == [i \in DOMAIN v.kv |-> v.kv[i][2]]

Keys(v) == [i \in DOMAIN v.kv |-> v.kv[i][1]]

IsArray(v) == v.t = "arr"

IsNullish(v) == v.t \in {"undef", "null"}

\* ToBoolean
JTruthy(v) ==
    CASE v.t \in {"undef", "null"} -> FALSE
      [] v.t = "str"               -> v.s # <<>>
      [] v.t = "num"               -> v.s # <<"0">>
      [] OTHER                     -> TRUE

\* a || b
Or(a, b) == IF JTruthy(a) THEN a ELSE b

Has(v, k) == v.t = "obj" /\ \E i \in DOMAIN v.kv : v.kv[i][1] = k

\* v?.k
Get(v, k) ==
    IF Has(v, k)
    THEN v.kv[CHOOSE i \in DOMAIN v.kv : v.kv[i][1] = k][2]
    ELSE Undef

\* JSON.stringify followed by a reader's JSON.parse: an object loses the
\* entries whose value is undefined, an array holds null in their place.
RECURSIVE Stringify(_)
Stringify(v) ==
    CASE v.t = "obj" ->
           LET kept == SelectSeq(v.kv, LAMBDA e : e[2].t # "undef")
           IN  Obj([i \in DOMAIN kept |->
                        <<kept[i][1], Stringify(kept[i][2])>>])
      [] v.t = "arr" ->
           Arr([i \in DOMAIN v.kv |->
                    IF v.kv[i][2].t = "undef" THEN JNull
                    ELSE Stringify(v.kv[i][2])])
      [] OTHER -> v

\* String(v) as Array.prototype.join applies it to an element.
RECURSIVE JoinItems(_, _)
ToStr(v) ==
    CASE v.t \in {"str", "num"} -> v.s
      [] v.t = "obj"            -> <<"[object Object]">>
      [] v.t = "arr"            -> JoinItems(Items(v), ",")
      [] OTHER                  -> <<>>

\* Array.prototype.join
JoinItems(items, sep) ==
    IF Len(items) = 0 THEN <<>>
    ELSE IF Len(items) = 1 THEN ToStr(items[1])
    ELSE ToStr(items[1]) \o <<sep>> \o JoinItems(Tail(items), sep)

\* value.startsWith('http://') || value.startsWith('https://'), the scheme
\* being the first word of the string.
IsUrl(s) == Len(s) > 0 /\ s[1] \in {"http://", "https://"}

\* ------------------------------------------------------ upstream responses

\* String(err)
ErrStr(e) ==
    CASE e = -115 -> "-115"
      [] e = -113 -> "-113"
      [] e = -1   -> "-1"
      [] OTHER    -> "0"

\* A decoded body that is an envelope: whether it has the key err, err, msg
\* and message as word lists (<<>>: absent), and the value under data
\* (Undef: absent).
Body(hasErr, err, msg, message, data) ==
    [hasErr |-> hasErr, err |-> err, msg |-> msg, message |-> message,
     data |-> data, bare |-> FALSE]

\* A decoded body without the key err: the value v itself (null, an array,
\* an object whose fields are the payload).
Bare(v) ==
    [hasErr |-> FALSE, err |-> 0, msg |-> <<>>, message |-> <<>>,
     data |-> v, bare |-> TRUE]

\* response.data as the operations read it.
Response(b) ==
    IF b.bare THEN b.data
    ELSE Obj((IF b.hasErr THEN <<<<"err", Num(ErrStr(b.err))>>>> ELSE <<>>)
             \o (IF b.msg # <<>> THEN <<<<"msg", Str(b.msg)>>>> ELSE <<>>)
             \o (IF b.message # <<>>
                 THEN <<<<"message", Str(b.message)>>>> ELSE <<>>)
             \o (IF b.data.t # "undef" THEN <<<<"data", b.data>>>> ELSE <<>>))

\* A msg holding the phrase the dispatcher looks for ("loi": the word
\* written with its diacritics in the source).
MsgAuth == <<"Da", "co", "loi", "xay", "ra">>

\* The bodies that report a failure.
ErrorBodies ==
    { Body(TRUE, -115, <<>>, <<>>, Undef),
      Body(TRUE, -113, <<"expired">>, <<>>, Undef),
      Body(TRUE, -1, MsgAuth, <<>>, Undef),
      Body(TRUE, -1, <<"bad">>, <<"note">>, Undef),
      Body(TRUE, -1, <<>>, <<"note">>, Undef) }

\* The payload the API holds in the dispatcher's runs.
MainPayload == Obj(<< <<"lyric", Str(<<"la">>)>> >>)

\* The success bodies that carry the payload data: with and without err.
SuccessBodies(data) ==
    { Body(FALSE, 0, <<>>, <<>>, data),
      Body(TRUE, 0, <<"Success">>, <<>>, data) }

\* The bodies the API answers with.
ApiBodies == SuccessBodies(MainPayload) \cup ErrorBodies

\* How an axios request fails: with a response (non-2xx status) or without
\* one (timeout, connection refused).
Throws == {"status", "network"}

\* A dispatcher that takes every failure code for an authentication failure.
IsAuthErrorAny(data) == TRUE

\* requestZingMp3, line 220
IsAuthError(data) ==
    \/ data.err = -115
    \/ data.err = -113
    \/ (Truthy(data.msg) /\ Includes(data.msg, "loi"))

\* A test that takes every body with the key err for a failure.
HasErrorKey(data) == data.hasErr

\* requestZingMp3, lines 217-218 and 244
HasError(data) == data.hasErr /\ data.err # 0

\* An Error text that prefers message over msg.
ErrorTextMessageFirst(data) ==
    IF Truthy(data.message) THEN data.message
    ELSE IF Truthy(data.msg) THEN data.msg
    ELSE <<"ZingMp3 API error:", ErrStr(data.err)>>

\* requestZingMp3, lines 245 and 249: the text of the thrown Error.
ErrorText(data) ==
    IF Truthy(data.msg) THEN data.msg
    ELSE IF Truthy(data.message) THEN data.message
    ELSE <<"ZingMp3 API error:", ErrStr(data.err)>>

\* requestZingMp3, lines 254-265: what the catch block rethrows.
TransportText(how) ==
    IF how = "status"
    THEN <<"ZingMp3 API request failed:", "status">>
    ELSE <<"timeout of 30000ms exceeded">>

\* getCookie, line 188
CookieFailText == <<"Failed to get cookie after", "3", "attempts">>

\* ------------------------------------------------------------ normalizers

\* How an async function ends: it returns a value, throws an Error with a
\* message, or throws a value that is no Error.
Returned(v) == [kind |-> "returned", text |-> <<>>, val |-> v]

ThrewError(text) == [kind |-> "threw", text |-> text, val |-> Undef]

ThrewValue(v) == [kind |-> "threwValue", text |-> <<>>, val |-> v]

\* The message of the TypeError a call of undefined, or a property read of
\* null, raises.
TypeErrorText == <<"TypeError">>

\* searchSongs, lines 277-288: the list the songs are read from.
SongList(response) ==
    IF JTruthy(Get(response, "data"))
    THEN LET data == Get(response, "data")
         IN  IF JTruthy(Get(data, "songs")) /\ IsArray(Get(data, "songs"))
             THEN Items(Get(data, "songs"))
             ELSE IF IsArray(data) THEN Items(data) ELSE <<>>
    ELSE IF IsArray(response) THEN Items(response) ELSE <<>>

\* x?.artists?.map(f) raises a TypeError: artists is there and is no array,
\* or f reads a.name of a null or undefined element.
ArtistsMapThrows(artists) ==
    /\ ~IsNullish(artists)
    /\ \/ ~IsArray(artists)
       \/ \E i \in DOMAIN artists.kv : IsNullish(artists.kv[i][2])

\* searchSongs, line 298: artists?.map((a) => a.name || a).join(", ")
JoinArtists(artists) ==
    IF IsNullish(artists) THEN Undef
    ELSE Str(JoinItems([i \in DOMAIN artists.kv |->
                            Or(Get(artists.kv[i][2], "name"),
                               artists.kv[i][2])], ", "))

\* fetchAlbum, line 425: artists?.map((a) => a.name).join(", ")
JoinArtistNames(artists) ==
    IF IsNullish(artists) THEN Undef
    ELSE Str(JoinItems([i \in DOMAIN artists.kv |->
                            Get(artists.kv[i][2], "name")], ", "))

\* searchSongs, lines 295-300: the mapping of one list item.
MapSong(song) ==
    Obj(<< <<"encodeId", Or(Or(Get(song, "encodeId"), Get(song, "id")),
                            Str(<<>>))>>,
           <<"title", Or(Or(Get(song, "title"), Get(song, "name")),
                         Str(<<>>))>>,
           <<"artistsNames", Or(Or(Get(song, "artistsNames"),
                                   JoinArtists(Get(song, "artists"))),
                                Str(<<>>))>>,
           <<"thumbnail", Or(Or(Or(Get(song, "thumbnail"),
                                   Get(song, "thumb")),
                                Get(song, "thumbnailM")), Str(<<>>))>>,
           <<"duration", Or(Get(song, "duration"), Undef)>> >>)

\* The mapping of one list item raises a TypeError.
MapSongThrows(song) ==
    /\ ~JTruthy(Get(song, "artistsNames"))
    /\ ArtistsMapThrows(Get(song, "artists"))

\* searchSongs, line 301: .filter((s) => s.encodeId && s.title)
KeepSong(s) == JTruthy(Get(s, "encodeId")) /\ JTruthy(Get(s, "title"))

\* searchSongs, lines 268-307, after requestZingMp3 ended with out.
searchSongs(keyword, out) ==
    IF out.kind = "error"
    THEN ThrewError(<<"Failed to search songs:">> \o out.text)
    ELSE LET songs == SongList(Response(out.body))
         IN  IF \E i \in DOMAIN songs : MapSongThrows(songs[i])
             THEN ThrewError(<<"Failed to search songs:">> \o TypeErrorText)
             ELSE Returned(Obj(<< <<"songs",
                      Arr(SelectSeq([i \in DOMAIN songs |-> MapSong(songs[i])],
                                    KeepSong))>> >>))

\* lyricSchema.safeParse(v).success
LyricSchemaOk(v) ==
    /\ v.t = "obj"
    /\ Get(v, "lyric").t \in {"undef", "str"}
    /\ Get(v, "sentences").t \in {"undef", "arr"}

\* fetchLyrics, lines 309-341
fetchLyrics(id, out) ==
    IF out.kind = "error"
    THEN Returned(Obj(<< <<"songId", Str(id)>>, <<"lyric", Undef>>,
                         <<"sentences", Undef>> >>))
    ELSE LET response == Response(out.body)
             lyricData == Or(Get(response, "data"), response)
         IN  IF LyricSchemaOk(lyricData)
             THEN Returned(Obj(<< <<"songId", Str(id)>>,
                                  <<"lyric", Get(lyricData, "lyric")>>,
                                  <<"sentences",
                                    Get(lyricData, "sentences")>> >>))
             ELSE Returned(Obj(<< <<"songId", Str(id)>>,
                                  <<"lyric", Get(lyricData, "lyric")>>,
                                  <<"sentences",
                                    Get(lyricData, "sentences")>> >>))

\* A filter that keeps every string value, whatever it begins with.
StreamEntryAnyString(e) ==
    IF e[2].t = "str"
    THEN << <<e[1], e[2]>> >>
    ELSE IF e[2].t \in {"obj", "arr"} /\ JTruthy(Get(e[2], "url"))
    THEN LET url == Get(e[2], "url")
         IN  IF url.t = "str" /\ IsUrl(url.s)
             THEN << <<e[1], url>> >> ELSE <<>>
    ELSE <<>>

\* fetchStreaming, lines 359-366: what one entry of the payload adds to
\* sources: itself, its url, or nothing.
StreamEntry(e) ==
    IF e[2].t = "str" /\ IsUrl(e[2].s)
    THEN << <<e[1], e[2]>> >>
    ELSE IF e[2].t \in {"obj", "arr"} /\ JTruthy(Get(e[2], "url"))
    THEN LET url == Get(e[2], "url")
         IN  IF url.t = "str" /\ IsUrl(url.s)
             THEN << <<e[1], url>> >> ELSE <<>>
    ELSE <<>>

RECURSIVE StreamEntries(_)
StreamEntries(kv) ==
    IF Len(kv) = 0 THEN <<>>
    ELSE StreamEntry(Head(kv)) \o StreamEntries(Tail(kv))

\* fetchStreaming, lines 352-368: the sources read from a response.
StreamSources(response) ==
    LET data == Or(Get(response, "data"), response)
    IN  IF JTruthy(data) /\ data.t = "obj"
        THEN Obj(StreamEntries(data.kv))
        ELSE Obj(<<>>)

\* fetchStreaming, lines 343-380
fetchStreaming(id, out) ==
    IF out.kind = "error"
    THEN Returned(Obj(<< <<"songId", Str(id)>>, <<"sources", Obj(<<>>)>> >>))
    ELSE Returned(Obj(<< <<"songId", Str(id)>>,
                         <<"sources", StreamSources(Response(out.body))>> >>))

\* artistSchema.safeParse(v).success
ArtistSchemaOk(v) ==
    /\ Get(v, "name").t = "str"
    /\ Get(v, "alias").t \in {"undef", "str"}
    /\ Get(v, "thumbnail").t \in {"undef", "str"}
    /\ Get(v, "totalFollow").t \in {"undef", "num"}

\* fetchArtist, lines 382-409
fetchArtist(name, out) ==
    IF out.kind = "error"
    THEN Returned(JNull)
    ELSE LET response == Response(out.body)
             artistData == Or(Get(response, "data"), response)
             mappedData ==
                 Obj(<< <<"name", Or(Or(Get(artistData, "name"),
                                        Get(artistData, "alias")),
                                     Str(name))>>,
                        <<"alias", Or(Or(Get(artistData, "alias"),
                                         Get(artistData, "name")),
                                      Str(name))>>,
                        <<"thumbnail", Or(Or(Get(artistData, "thumbnail"),
                                             Get(artistData, "thumb")),
                                          Get(artistData, "thumbnailM"))>>,
                        <<"totalFollow", Or(Get(artistData, "totalFollow"),
                                            Get(artistData, "followers"))>> >>)
         IN  IF ArtistSchemaOk(mappedData)
             THEN Returned(mappedData)
             ELSE Returned(JNull)

\* albumSchema.safeParse(v).success
AlbumSchemaOk(v) ==
    /\ Get(v, "encodeId").t = "str"
    /\ Get(v, "title").t = "str"
    /\ Get(v, "artistsNames").t \in {"undef", "str"}
    /\ Get(v, "thumbnail").t \in {"undef", "str"}

\* fetchAlbum, lines 411-438
fetchAlbum(id, out) ==
    IF out.kind = "error"
    THEN Returned(JNull)
    ELSE LET response == Response(out.body)
             albumData == Or(Get(response, "data"), response)
         IN  IF /\ ~JTruthy(Get(albumData, "artistsNames"))
                /\ ArtistsMapThrows(Get(albumData, "artists"))
             THEN Returned(JNull)
             ELSE LET mappedData ==
                      Obj(<< <<"encodeId", Or(Or(Get(albumData, "encodeId"),
                                                 Get(albumData, "id")),
                                              Str(id))>>,
                             <<"title", Or(Get(albumData, "title"),
                                           Get(albumData, "name"))>>,
                             <<"artistsNames",
                               Or(Get(albumData, "artistsNames"),
                                  JoinArtistNames(Get(albumData,
                                                      "artists")))>>,
                             <<"thumbnail",
                               Or(Or(Get(albumData, "thumbnail"),
                                     Get(albumData, "thumb")),
                                  Get(albumData, "thumbnailM"))>> >>)
                  IN  IF AlbumSchemaOk(mappedData)
                      THEN Returned(mappedData)
                      ELSE Returned(JNull)

\* ------------------------------------------------------------- tool layer

Tools == {"search_songs", "get_song_lyrics", "get_song_streams",
          "find_artist", "get_album", "play_song"}

\* The tool whose handler calls just the operation o.
OpTool(o) ==
    CASE o = "searchSongs"    -> "search_songs"
      [] o = "fetchLyrics"    -> "get_song_lyrics"
      [] o = "fetchStreaming" -> "get_song_streams"
      [] o = "fetchArtist"    -> "find_artist"
      [] o = "fetchAlbum"     -> "get_album"

\* pickBestStream: const preferred = ["lossless", "320", "m4a", "128"]
preferred == <<"lossless", "320", "m4a", "128">>

\* A selector that tries the preferred keys from the last to the first.
pickBestStreamReversed(streaming) ==
    LET sources == Get(streaming, "sources")
        Hit(i) == JTruthy(Get(sources, preferred[i]))
    IN  IF \E i \in DOMAIN preferred : Hit(i)
        THEN LET i == CHOOSE j \in DOMAIN preferred :
                          Hit(j) /\ \A k \in DOMAIN preferred : k > j => ~Hit(k)
             IN  Obj(<< <<"quality", Str(<<preferred[i]>>)>>,
                        <<"url", Get(sources, preferred[i])>> >>)
        ELSE IF Len(sources.kv) = 0 \/ sources.kv[1][1] = ""
        THEN JNull
        ELSE Obj(<< <<"quality", Str(<<sources.kv[1][1]>>)>>,
                    <<"url", sources.kv[1][2]>> >>)

\* pickBestStream, index.ts lines 51-62
pickBestStream(streaming) ==
    LET sources == Get(streaming, "sources")
        Hit(i) == JTruthy(Get(sources, preferred[i]))
    IN  IF \E i \in DOMAIN preferred : Hit(i)
        THEN LET i == CHOOSE j \in DOMAIN preferred :
                          Hit(j) /\ \A k \in 1..(j - 1) : ~Hit(k)
             IN  Obj(<< <<"quality", Str(<<preferred[i]>>)>>,
                        <<"url", Get(sources, preferred[i])>> >>)
        ELSE IF Len(sources.kv) = 0 \/ sources.kv[1][1] = ""
        THEN JNull
        ELSE Obj(<< <<"quality", Str(<<sources.kv[1][1]>>)>>,
                    <<"url", sources.kv[1][2]>> >>)

\* The function a tool handler hands to handleErrors, run on the client
\* operation's outcome (index.ts lines 73-155).
ToolFn(tool, arg, opOutcome) ==
    IF tool = "play_song" /\ opOutcome.kind = "returned"
    THEN Returned(Obj(<< <<"songId", Str(arg)>>,
                         <<"selected", pickBestStream(opOutcome.val)>>,
                         <<"sources", Get(opOutcome.val, "sources")>> >>))
    ELSE opOutcome

\* respondWithJson, index.ts lines 32-39: the decoded text of the one
\* content item.
respondWithJson(data) == [type |-> "text", text |-> Stringify(data)]

\* A wrapper that reports every failure with the fixed message.
handleErrorsFixed(fn) ==
    IF fn.kind = "returned"
    THEN respondWithJson(fn.val)
    ELSE respondWithJson(Obj(<< <<"error", Str(<<"Unexpected error">>)>> >>))

\* handleErrors, index.ts lines 41-49, on the outcome of await fn().
handleErrors(fn) ==
    IF fn.kind = "returned"
    THEN respondWithJson(fn.val)
    ELSE LET message == IF fn.kind = "threw" THEN fn.text
                        ELSE <<"Unexpected error">>
         IN  respondWithJson(Obj(<< <<"error", Str(message)>> >>))

\* getClient, index.ts lines 13-15: the Error thrown when the constructor
\* threw the Error or the value thrown.
InitFailure(thrown) ==
    ThrewError(<<"Failed to initialize Mp3ApiClient:">>
               \o (IF thrown.kind = "threw" THEN thrown.text
                   ELSE ToStr(thrown.val)))

\* The client operation o, run on the outcome of requestZingMp3.
ClientOp(o, arg, out) ==
    CASE o = "searchSongs"    -> searchSongs(arg, out)
      [] o = "fetchLyrics"    -> fetchLyrics(arg, out)
      [] o = "fetchStreaming" -> fetchStreaming(arg, out)
      [] o = "fetchArtist"    -> fetchArtist(arg, out)
      [] o = "fetchAlbum"     -> fetchAlbum(arg, out)

NoResult == [type |-> "none", text |-> Undef]

\* ------------------------------------------------------------------ state

VARIABLES
    cookie,     \* this.cookie
    clock,      \* Math.floor(Date.now() / 1000)
    pc,         \* where each logical call stands
    op,         \* the operation and argument of each call
    ctime,      \* the ctime the operation computed
    phase,      \* "first" or "retry": which attempt of requestZingMp3
    attempt,    \* getCookie's loop variable
    delay,      \* the pending setTimeout of getCookie, in ms (0: none)
    lcookie,    \* the cookie / freshCookie local of requestZingMp3
    req,        \* the API request of the call that is in flight
    last,       \* how the call's latest API request settled; in the
                \* multi-endpoint client, the list errors of searchSongs
    outcome,    \* how requestZingMp3 ended
    nAcq,       \* acquisition requests sent by the call's current getCookie
    nApi,       \* API requests sent by the call
    nInval,     \* how often the call cleared this.cookie
    setCookie,  \* response.headers["set-cookie"] of a web root whose answer
                \* is fixed (SpecSelect); not read otherwise
    result,     \* what the tool handler returned to the caller
    apiData,    \* the payload of an upstream whose answer is fixed (SpecOps,
                \* SpecBase); not read otherwise
    client      \* whether index.ts's module variable client holds an instance

vars == <<cookie, clock, pc, op, ctime, phase, attempt, delay, lcookie, req,
          last, outcome, nAcq, nApi, nInval, setCookie, result, apiData,
          client>>

NoOutcome == [kind |-> "none", text |-> <<>>, body |-> "none"]

\* How an API request settled: with a decoded body, or by throwing.
Answered(data) == [kind |-> "body", val |-> data]

Thrown(how) ==
    [kind |-> "throw", val |-> Body(FALSE, 0, <<>>, <<>>, Str(<<how>>))]

NoAnswer == [kind |-> "none", val |-> Body(FALSE, 0, <<>>, <<>>, Undef)]

NoOp == [tool |-> "none", name |-> "none", arg |-> <<>>]

NoReq == [path |-> "none", Cookie |-> NULL, params |-> "none"]

InitClient ==
    /\ cookie = NULL
    /\ clock = 0
    /\ pc = [c \in Calls |-> "idle"]
    /\ op = [c \in Calls |-> NoOp]
    /\ ctime = [c \in Calls |-> 0]
    /\ phase = [c \in Calls |-> "first"]
    /\ attempt = [c \in Calls |-> 0]
    /\ delay = [c \in Calls |-> 0]
    /\ lcookie = [c \in Calls |-> NULL]
    /\ req = [c \in Calls |-> NoReq]
    /\ last = [c \in Calls |-> NoAnswer]
    /\ outcome = [c \in Calls |-> NoOutcome]
    /\ nAcq = [c \in Calls |-> 0]
    /\ nApi = [c \in Calls |-> 0]
    /\ nInval = [c \in Calls |-> 0]
    /\ result = [c \in Calls |-> NoResult]
    /\ client = FALSE

Init == InitClient /\ setCookie = <<>> /\ apiData = Undef

\* ---------------------------------------------------------------- actions

Ok(data) == [kind |-> "ok", text |-> <<>>, body |-> data]

\* An Error thrown out of requestZingMp3; src names the throw statement.
Err(src, text) == [kind |-> "error", text |-> text, body |-> src]

\* getCTIME, lines 84-86
getCTIME == clock

\* requestZingMp3, line 194: ctime || this.getCTIME().  Every operation
\* passes the ctime it signed with, a non-empty string.
RequestCTIME(c) == ctime[c]

\* A getCookie without the cache test of lines 130-132: it always acquires.
GetCookieEnterMiss(c, cache) ==
    /\ lcookie' = [lcookie EXCEPT ![c] = NULL]
    /\ pc' = [pc EXCEPT ![c] = "acq"]
    /\ attempt' = [attempt EXCEPT ![c] = 1]
    /\ nAcq' = [nAcq EXCEPT ![c] = 1]

\* A getCookie that waits before the first attempt of an acquisition.
GetCookieEnterWait(c, cache) ==
    IF Truthy(cache)
    THEN /\ lcookie' = [lcookie EXCEPT ![c] = cache]
         /\ pc' = [pc EXCEPT ![c] = "gotCookie"]
         /\ attempt' = [attempt EXCEPT ![c] = 0]
         /\ nAcq' = [nAcq EXCEPT ![c] = 0]
    ELSE /\ lcookie' = [lcookie EXCEPT ![c] = NULL]
         /\ pc' = [pc EXCEPT ![c] = "backoff"]
         /\ attempt' = [attempt EXCEPT ![c] = 0]
         /\ nAcq' = [nAcq EXCEPT ![c] = 0]

\* getCookie, lines 129-148, entered by call c with the cache holding cache:
\* a hit resolves with the cached value, a miss sends attempt 1.
GetCookieEnter(c, cache) ==
    IF Truthy(cache)
    THEN /\ lcookie' = [lcookie EXCEPT ![c] = cache]
         /\ pc' = [pc EXCEPT ![c] = "gotCookie"]
         /\ attempt' = [attempt EXCEPT ![c] = 0]
         /\ nAcq' = [nAcq EXCEPT ![c] = 0]
    ELSE /\ lcookie' = [lcookie EXCEPT ![c] = NULL]
         /\ pc' = [pc EXCEPT ![c] = "acq"]
         /\ attempt' = [attempt EXCEPT ![c] = 1]
         /\ nAcq' = [nAcq EXCEPT ![c] = 1]

\* What the tool handler of call c returns when requestZingMp3 ended with
\* out: the operation's continuation, the handler's function and
\* handleErrors run one after the other.
ToolResult(c, out) ==
    handleErrors(ToolFn(op[c].tool, op[c].arg,
                        ClientOp(op[c].name, op[c].arg, out)))

\* requestZingMp3 ends: its locals, getCookie's and the operation's ctime
\* are gone.  The continuations that run on its outcome await nothing but
\* promises already settled, so they end before the next response, timer
\* or tool call is handled and belong to this step.
Return(c, how, out) ==
    /\ pc' = [pc EXCEPT ![c] = how]
    /\ outcome' = [outcome EXCEPT ![c] = out]
    /\ result' = [result EXCEPT ![c] = ToolResult(c, out)]
    /\ lcookie' = [lcookie EXCEPT ![c] = NULL]
    /\ attempt' = [attempt EXCEPT ![c] = 0]
    /\ ctime' = [ctime EXCEPT ![c] = 0]

\* An exhausted acquisition that gives up without an error: the call ends
\* as if the API had answered nothing.
GetCookieGiveUp(c) == Return(c, "done", Ok(Body(FALSE, 0, <<>>, <<>>, Undef)))

\* getCookie, line 188, rethrown by requestZingMp3's catch (line 262).
GetCookieFail(c) == Return(c, "failed", Err("cookie", CookieFailText))

\* A getClient that constructs a client for every call: the call finds
\* an empty cache.
CallOpFresh(c, t, o, a) ==
    /\ pc[c] = "idle"
    /\ client' = TRUE
    /\ op' = [op EXCEPT ![c] = [tool |-> t, name |-> o, arg |-> a]]
    /\ ctime' = [ctime EXCEPT ![c] = getCTIME]
    /\ cookie' = NULL
    /\ GetCookieEnter(c, NULL)
    /\ UNCHANGED <<clock, phase, delay, req, last, outcome, result,
                   nApi, nInval, setCookie, apiData>>

\* The handler of tool t is called with the argument a: getClient returns
\* the client, constructing it when there is none (index.ts lines 9-18),
\* and the operation o is called: it takes its ctime, signs, and enters
\* requestZingMp3, which awaits getCookie (lines 270-274, 193).
CallOp(c, t, o, a) ==
    /\ pc[c] = "idle"
    /\ client' = TRUE
    /\ op' = [op EXCEPT ![c] = [tool |-> t, name |-> o, arg |-> a]]
    /\ ctime' = [ctime EXCEPT ![c] = getCTIME]
    /\ GetCookieEnter(c, cookie)
    /\ UNCHANGED <<cookie, clock, phase, delay, req, last, outcome, result,
                   nApi, nInval, setCookie, apiData>>

\* One of the five tools that call one operation is called.
Start(c, o, a) == CallOp(c, OpTool(o), o, a)

\* play_song is called (index.ts lines 143-154).
PlaySong(c, a) == CallOp(c, "play_song", "fetchStreaming", a)

\* getClient finds no client and the constructor throws: the handler
\* returns handleErrors' answer at once (index.ts lines 10-15, 45-47).
ConstructFail(c, t, a, thrown) ==
    /\ pc[c] = "idle"
    /\ ~client
    /\ op' = [op EXCEPT ![c] = [tool |-> t, name |-> "none", arg |-> a]]
    /\ pc' = [pc EXCEPT ![c] = "refused"]
    /\ result' = [result EXCEPT ![c] = handleErrors(InitFailure(thrown))]
    /\ UNCHANGED <<cookie, clock, ctime, phase, attempt, delay, lcookie, req,
                   last, outcome, nAcq, nApi, nInval, setCookie, apiData,
                   client>>

\* An acquisition that stores its credential only into an empty cache.
AcqRespondKeepFirst(c, h) ==
    /\ pc[c] = "acq"
    /\ IF Truthy(SelectCookie(h))
       THEN /\ cookie' = IF Truthy(cookie) THEN cookie ELSE SelectCookie(h)
            /\ lcookie' = [lcookie EXCEPT ![c] = SelectCookie(h)]
            /\ pc' = [pc EXCEPT ![c] = "gotCookie"]
            /\ UNCHANGED <<attempt, nAcq, outcome, result, ctime>>
       ELSE IF attempt[c] < maxRetries
       THEN /\ attempt' = [attempt EXCEPT ![c] = @ + 1]
            /\ nAcq' = [nAcq EXCEPT ![c] = @ + 1]
            /\ UNCHANGED <<cookie, lcookie, pc, outcome, result, ctime>>
       ELSE /\ GetCookieFail(c)
            /\ UNCHANGED <<cookie, nAcq>>
    /\ UNCHANGED <<clock, op, phase, delay, req, last, nApi, nInval,
                   setCookie, apiData, client>>

\* The web root answers an acquisition request with the header list h
\* (lines 150-178).
AcqRespond(c, h) ==
    /\ pc[c] = "acq"
    /\ IF Truthy(SelectCookie(h))
       THEN /\ cookie' = SelectCookie(h)
            /\ lcookie' = [lcookie EXCEPT ![c] = SelectCookie(h)]
            /\ pc' = [pc EXCEPT ![c] = "gotCookie"]
            /\ UNCHANGED <<attempt, nAcq, outcome, result, ctime>>
       ELSE IF attempt[c] < maxRetries
       THEN /\ attempt' = [attempt EXCEPT ![c] = @ + 1]
            /\ nAcq' = [nAcq EXCEPT ![c] = @ + 1]
            /\ UNCHANGED <<cookie, lcookie, pc, outcome, result, ctime>>
       ELSE /\ GetCookieFail(c)
            /\ UNCHANGED <<cookie, nAcq>>
    /\ UNCHANGED <<clock, op, phase, delay, req, last, nApi, nInval,
                   setCookie, apiData, client>>

\* An acquisition request throws (lines 179-185).
AcqThrow(c) ==
    /\ pc[c] = "acq"
    /\ IF attempt[c] < maxRetries
       THEN /\ delay' = [delay EXCEPT ![c] = BackoffDelay(attempt[c])]
            /\ pc' = [pc EXCEPT ![c] = "backoff"]
            /\ UNCHANGED <<outcome, result, lcookie, attempt, ctime>>
       ELSE /\ GetCookieFail(c)
            /\ UNCHANGED delay
    /\ UNCHANGED <<cookie, clock, op, phase, req, last, nAcq, nApi, nInval,
                   setCookie, apiData, client>>

\* A backoff timer that never fires.
BackoffNever(c) == pc[c] = "backoff" /\ UNCHANGED vars

\* The backoff timer fires: the loop sends the next attempt (line 138).
BackoffDone(c) ==
    /\ pc[c] = "backoff"
    /\ delay' = [delay EXCEPT ![c] = 0]
    /\ attempt' = [attempt EXCEPT ![c] = @ + 1]
    /\ nAcq' = [nAcq EXCEPT ![c] = @ + 1]
    /\ pc' = [pc EXCEPT ![c] = "acq"]
    /\ UNCHANGED <<cookie, clock, op, ctime, phase, lcookie, req, last,
                   outcome, result, nApi, nInval, setCookie, apiData, client>>

\* The request as axios sends it: path, Cookie header and query set.
Request(c, params) ==
    [path |-> OpPath(op[c].name), Cookie |-> lcookie[c], params |-> params]

\* A query set whose signature is keyed with the credential of the call too.
CallParamsKeyed(c) ==
    LET params == Params(OpQs(op[c].name, op[c].arg, ctime[c]), RequestCTIME(c))
    IN  [params EXCEPT !.sig = getHmac512(<<@, lcookie[c]>>, SECRET_KEY)]

\* requestZingMp3, lines 196-201: the params local of call c.
CallParams(c) ==
    Params(OpQs(op[c].name, op[c].arg, ctime[c]), RequestCTIME(c))

\* getCookie has resolved: requestZingMp3 builds the query set and sends
\* the API request (lines 194-212 for the first attempt, 224-242 for the
\* retry).
SendApi(c) ==
    /\ pc[c] = "gotCookie"
    /\ IF phase[c] = "first"
       THEN req' = [req EXCEPT ![c] = Request(c, CallParams(c))]
       ELSE req' = [req EXCEPT ![c] =
                        Request(c, RetryParams(CallParams(c), getCTIME))]
    /\ nApi' = [nApi EXCEPT ![c] = @ + 1]
    /\ pc' = [pc EXCEPT ![c] = "api"]
    /\ UNCHANGED <<cookie, clock, op, ctime, phase, attempt, delay, lcookie,
                   last, outcome, result, nAcq, nInval, setCookie, apiData, client>>

\* A catch block that takes a transport failure for a rejected credential.
ApiThrowInvalidate(c, how) ==
    /\ pc[c] = "api"
    /\ req' = [req EXCEPT ![c] = NoReq]
    /\ last' = [last EXCEPT ![c] = Thrown(how)]
    /\ cookie' = NULL
    /\ Return(c, "failed", Err("transport", TransportText(how)))
    /\ UNCHANGED <<clock, op, phase, delay, nAcq, nApi, nInval, setCookie, apiData, client>>

\* The API request throws (lines 254-265).
ApiThrow(c, how) ==
    /\ pc[c] = "api"
    /\ req' = [req EXCEPT ![c] = NoReq]
    /\ last' = [last EXCEPT ![c] = Thrown(how)]
    /\ Return(c, "failed", Err("transport", TransportText(how)))
    /\ UNCHANGED <<cookie, clock, op, phase, delay, nAcq, nApi, nInval,
                   setCookie, apiData, client>>

\* A dispatcher that loops: a rejected retry starts another retry.
MayRetryAlways(c) == TRUE

\* requestZingMp3, lines 220-248: the retry is inline code of the first
\* attempt's error branch, so only a first response can start it.
MayRetry(c) == phase[c] = "first"

\* A dispatcher that retries without clearing the cache: the retry takes
\* the credential it finds there.
ApiRespondKeep(c, data) ==
    /\ pc[c] = "api"
    /\ req' = [req EXCEPT ![c] = NoReq]
    /\ last' = [last EXCEPT ![c] = Answered(data)]
    /\ IF HasError(data)
       THEN IF MayRetry(c) /\ IsAuthError(data)
            THEN /\ nInval' = [nInval EXCEPT ![c] = @ + 1]
                 /\ phase' = [phase EXCEPT ![c] = "retry"]
                 /\ GetCookieEnter(c, cookie)
                 /\ UNCHANGED <<cookie, outcome, result, ctime>>
            ELSE /\ Return(c, "failed", Err("protocol", ErrorText(data)))
                 /\ UNCHANGED <<cookie, nInval, phase, nAcq>>
       ELSE /\ Return(c, "done", Ok(data))
            /\ UNCHANGED <<cookie, nInval, phase, nAcq>>
    /\ UNCHANGED <<clock, op, delay, nApi, setCookie, apiData, client>>

\* The API answers with the decoded body data (lines 214-253).
ApiRespond(c, data) ==
    /\ pc[c] = "api"
    /\ req' = [req EXCEPT ![c] = NoReq]
    /\ last' = [last EXCEPT ![c] = Answered(data)]
    /\ IF HasError(data)
       THEN IF MayRetry(c) /\ IsAuthError(data)
            THEN /\ cookie' = NULL
                 /\ nInval' = [nInval EXCEPT ![c] = @ + 1]
                 /\ phase' = [phase EXCEPT ![c] = "retry"]
                 /\ GetCookieEnter(c, NULL)
                 /\ UNCHANGED <<outcome, result, ctime>>
            ELSE /\ Return(c, "failed", Err("protocol", ErrorText(data)))
                 /\ UNCHANGED <<cookie, nInval, phase, nAcq>>
       ELSE /\ Return(c, "done", Ok(data))
            /\ UNCHANGED <<cookie, nInval, phase, nAcq>>
    /\ UNCHANGED <<clock, op, delay, nApi, setCookie, apiData, client>>

\* A second passes.
Tick ==
    /\ clock < MaxClock
    /\ clock' = clock + 1
    /\ UNCHANGED <<cookie, pc, op, ctime, phase, attempt, delay, lcookie, req,
                   last, outcome, result, nAcq, nApi, nInval, setCookie, apiData, client>>

Next ==
    \/ \E c \in Calls, o \in MainOps, a \in Args : Start(c, o, a)
    \/ \E c \in Calls, h \in WebRootHeaders : AcqRespond(c, h)
    \/ \E c \in Calls : AcqThrow(c)
    \/ \E c \in Calls : BackoffDone(c)
    \/ \E c \in Calls : SendApi(c)
    \/ \E c \in Calls, how \in Throws : ApiThrow(c, how)
    \/ \E c \in Calls, data \in ApiBodies : ApiRespond(c, data)
    \/ Tick

Spec == Init /\ [][Next]_vars

\* What call c does when a request of its own returns or throws, when its
\* timer fires, and when its credential is there: every step of c but its
\* start.
Proceeds(c) ==
    \/ \E h \in WebRootHeaders : AcqRespond(c, h)
    \/ AcqThrow(c)
    \/ BackoffDone(c)
    \/ SendApi(c)
    \/ \E how \in Throws : ApiThrow(c, how)
    \/ \E data \in ApiBodies : ApiRespond(c, data)


\* ------------------------------------------------- the header selection

\* One call acquires the credential from a web root whose answer, any list
\* of HeaderLists, is fixed at the start.
SelectCalls == {"c1"}

InitSelect == InitClient /\ setCookie \in HeaderLists /\ apiData = Undef

NextSelect ==
    \/ \E c \in SelectCalls, o \in MainOps, a \in Args : Start(c, o, a)
    \/ \E c \in SelectCalls : AcqRespond(c, setCookie)
    \/ \E c \in SelectCalls : AcqThrow(c)
    \/ \E c \in SelectCalls : BackoffDone(c)

SpecSelect == InitSelect /\ [][NextSelect]_vars

\* ------------------------------------------------- one call, to its end

\* One call of the client, when every HTTP request eventually returns or
\* throws (axios timeouts of 15 s and 30 s, lines 141 and 211) and every
\* timer fires.
NextLive ==
    \/ \E c \in SelectCalls, o \in MainOps, a \in Args : Start(c, o, a)
    \/ \E c \in SelectCalls : Proceeds(c)
    \/ Tick

SpecLive ==
    Init /\ [][NextLive]_vars /\ \A c \in SelectCalls : WF_vars(Proceeds(c))

\* ------------------------------------------------- the tools, one call

\* One tool call at a time against an upstream whose payload, any of
\* EntityPayloads, is fixed at the start.
ToolCalls == {"c1"}

\* The arguments a tool may be called with: z.string() admits every string.
ToolArgs == {<<>>, <<" ">>, <<"x">>, <<" ", "x", " ">>}

UrlA == Str(<<"https://", "a">>)

UrlB == Str(<<"http://", "b">>)

SongX ==
    Obj(<< <<"encodeId", Str(<<"X">>)>>, <<"title", Str(<<"T">>)>> >>)

\* The payloads the upstream may hold: none, empty ones, ones that lack
\* the fields an entity needs, one of each kind of entity, and lyrics whose
\* fields are of other types than the schema's.
EntityPayloads ==
    { JNull,
      Str(<<>>),
      Arr(<<>>),
      Obj(<<>>),
      Obj(<< <<"thumbnail", Str(<<"t.jpg">>)>> >>),
      Obj(<< <<"songs", Arr(<<>>)>> >>),
      Arr(<<SongX>>),
      Obj(<< <<"songs", Arr(<< Obj(<< <<"id", Str(<<"I">>)>>,
                                      <<"title", Str(<<"T">>)>> >>),
                               Obj(<< <<"songId", Str(<<"S">>)>>,
                                      <<"title", Str(<<"V">>)>> >>) >>)>> >>),
      Obj(<< <<"data", Obj(<< <<"songs", Arr(<<SongX>>)>> >>)>> >>),
      Obj(<< <<"songs", Arr(<< SongX, Obj(<< <<"title", Str(<<"U">>)>> >>) >>)>> >>),
      Obj(<< <<"songs", Arr(<< Obj(<< <<"encodeId", Str(<<"X">>)>>,
                                      <<"title", Str(<<"T">>)>>,
                                      <<"artists", Str(<<"abc">>)>> >>) >>)>> >>),
      Obj(<< <<"songs", Arr(<< SongX, Obj(<< <<"title", Str(<<"U">>)>>,
                                             <<"artists", Arr(<<JNull>>)>> >>) >>)>> >>),
      Obj(<< <<"lyric", Str(<<"la">>)>>, <<"sentences", Arr(<<>>)>> >>),
      Obj(<< <<"lyric", Num("1")>>, <<"sentences", Str(<<"la">>)>> >>),
      Obj(<< <<"320", UrlA>>, <<"m4a", Obj(<< <<"url", UrlB>> >>)>>,
             <<"bogus", Str(<<"not-a-url">>)>> >>),
      Obj(<< <<"bogus", Str(<<"not-a-url">>)>> >>),
      Obj(<< <<"name", Str(<<"N">>)>>, <<"alias", Str(<<"n">>)>>,
             <<"totalFollow", Num("7")>> >>),
      Obj(<< <<"encodeId", Str(<<"A">>)>>, <<"title", Str(<<"T">>)>>,
             <<"artists", Arr(<< Obj(<< <<"name", Str(<<"N">>)>> >>) >>)>> >>) }

\* What a throwing constructor may throw.
ConstructThrows == {ThrewError(<<"boom">>), ThrewValue(Str(<<"boom">>))}

InitOps == InitClient /\ setCookie = <<>> /\ apiData \in EntityPayloads

NextOps ==
    \/ \E c \in ToolCalls, o \in Ops, a \in ToolArgs : Start(c, o, a)
    \/ \E c \in ToolCalls, a \in ToolArgs : PlaySong(c, a)
    \/ \E c \in ToolCalls, t \in Tools, a \in ToolArgs,
          thrown \in ConstructThrows : ConstructFail(c, t, a, thrown)
    \/ \E c \in ToolCalls, h \in {<<>>, <<HdrSid>>} : AcqRespond(c, h)
    \/ \E c \in ToolCalls : SendApi(c)
    \/ \E c \in ToolCalls, how \in Throws : ApiThrow(c, how)
    \/ \E c \in ToolCalls,
          data \in ErrorBodies \cup SuccessBodies(apiData) \cup {Bare(apiData)} :
          ApiRespond(c, data)

SpecOps == InitOps /\ [][NextOps]_vars

\* ------------------------------------------------- the streaming sources

\* A streaming payload has at most MaxEntries entries.
MaxEntries == 2

\* The keys of a streaming payload.  The keys that are array indices come
\* first in an object's iteration order, in ascending order; the others
\* follow in the order of the JSON text.
IndexKeys == <<"128", "320">>

NameKeys == {"lossless", "m4a", "hq", ""}

\* ks is the iteration order of an object: no key twice, the index keys
\* first and ascending.
JsOrdered(ks) ==
    LET IsIndexKey(k) == \E i \in DOMAIN IndexKeys : IndexKeys[i] = k
        IndexRank(k)  == CHOOSE i \in DOMAIN IndexKeys : IndexKeys[i] = k
    IN  \A i, j \in DOMAIN ks :
            i < j => /\ ks[i] # ks[j]
                     /\ IsIndexKey(ks[j]) =>
                            /\ IsIndexKey(ks[i])
                            /\ IndexRank(ks[i]) < IndexRank(ks[j])

\* The values of a streaming payload: a URL, a URL under url, and values
\* that are neither.
StreamValues ==
    { UrlA,
      Str(<<"not-a-url">>),
      Num("7"),
      Obj(<< <<"url", UrlB>> >>),
      Obj(<< <<"url", Str(<<"ftp://", "c">>)>> >>) }

\* The streaming payloads: every object of at most MaxEntries entries over
\* these keys and values, and two payloads that are no object.
StreamPayloads ==
    LET AllKeys == {IndexKeys[i] : i \in DOMAIN IndexKeys} \cup NameKeys
        KeySeqs == {ks \in SeqsUpTo(AllKeys, MaxEntries) : JsOrdered(ks)}
    IN  UNION {{Obj([i \in DOMAIN ks |-> <<ks[i], vs[i]>>]) :
                    vs \in [DOMAIN ks -> StreamValues]} : ks \in KeySeqs}
        \cup {JNull, Arr(<<UrlA>>)}

InitStream == InitClient /\ setCookie = <<>> /\ apiData \in StreamPayloads

NextStream ==
    \/ \E c \in ToolCalls, a \in Args : Start(c, "fetchStreaming", a)
    \/ \E c \in ToolCalls, a \in Args : PlaySong(c, a)
    \/ \E c \in ToolCalls : AcqRespond(c, <<HdrSid>>)
    \/ \E c \in ToolCalls : SendApi(c)
    \/ \E c \in ToolCalls, data \in SuccessBodies(apiData) \cup {Bare(apiData)} :
          ApiRespond(c, data)

SpecStream == InitStream /\ [][NextStream]_vars

\* ---------------------------------------------------- the base-URL client

\* The client of src/src/mp3ApiClient.ts: it is constructed with a base URL
\* and holds no credential.  A response body is a JSON value.

MissingPayloadText == <<"mp3-api response missing data payload">>

\* The object v without the keys in drop: const { err, message, ...rest }
Without(v, drop) == Obj(SelectSeq(v.kv, LAMBDA e : e[1] \notin drop))

\* An unwrapping that takes the payload from the data field only.
unwrapResponseDataOnly(responseData) ==
    IF IsNullish(responseData)
    THEN ThrewError(MissingPayloadText)
    ELSE IF Has(responseData, "err")
    THEN LET err == Get(responseData, "err")
         IN  IF JTruthy(err) /\ err # Num("0")
             THEN ThrewError(
                      IF JTruthy(Get(responseData, "message"))
                      THEN ToStr(Get(responseData, "message"))
                      ELSE <<"mp3-api responded with error code:">>
                           \o ToStr(err))
             ELSE IF ~IsNullish(Get(responseData, "data"))
             THEN Returned(Get(responseData, "data"))
             ELSE ThrewError(MissingPayloadText)
    ELSE Returned(responseData)

\* unwrapResponse, mp3ApiClient.ts lines 57-93
unwrapResponse(responseData) ==
    IF IsNullish(responseData)
    THEN ThrewError(MissingPayloadText)
    ELSE IF Has(responseData, "err")
    THEN LET err  == Get(responseData, "err")
             rest == Without(responseData, {"err", "message"})
         IN  IF JTruthy(err) /\ err # Num("0")
             THEN ThrewError(
                      IF JTruthy(Get(responseData, "message"))
                      THEN ToStr(Get(responseData, "message"))
                      ELSE <<"mp3-api responded with error code:">>
                           \o ToStr(err))
             ELSE IF ~IsNullish(Get(responseData, "data"))
             THEN Returned(Get(responseData, "data"))
             ELSE IF (err = Num("0") \/ err.t = "undef") /\ Len(rest.kv) > 0
             THEN Returned(rest)
             ELSE ThrewError(MissingPayloadText)
    ELSE Returned(responseData)

\* What a zod object schema with the keys keys returns for v: the entries
\* of v under those keys.
Pick(v, keys) ==
    Obj(SelectSeq([i \in DOMAIN keys |-> <<keys[i], Get(v, keys[i])>>],
                  LAMBDA e : e[2].t # "undef"))

\* songSchema.safeParse(v).success
SongSchemaOk(v) ==
    /\ v.t = "obj"
    /\ Get(v, "encodeId").t = "str"
    /\ Get(v, "title").t = "str"
    /\ Get(v, "artistsNames").t \in {"undef", "str"}
    /\ Get(v, "thumbnail").t \in {"undef", "str"}
    /\ Get(v, "duration").t \in {"undef", "num"}

\* A streaming schema that admits every object, whatever its values.
StreamingSchemaAny(v) == v.t = "obj"

\* streamingSchema.safeParse(v).success: z.record(z.string(), z.string())
StreamingSchemaOk(v) ==
    v.t = "obj" /\ \A i \in DOMAIN v.kv : v.kv[i][2].t = "str"

BaseOpPath(o) ==
    CASE o = "searchSongs"    -> "/search"
      [] o = "fetchLyrics"    -> "/lyric"
      [] o = "fetchStreaming" -> "/streaming"
      [] o = "fetchArtist"    -> "/artist"
      [] o = "fetchAlbum"     -> "/album"

BaseOpParam(o) ==
    CASE o = "searchSongs" -> "keyword"
      [] o = "fetchArtist" -> "name"
      [] OTHER             -> "id"

\* The message of the Error an operation throws for a blank argument.
BaseEmptyText(o) ==
    CASE o = "searchSongs" -> <<"Search keyword cannot be empty">>
      [] o = "fetchArtist" -> <<"Artist name cannot be empty">>
      [] o = "fetchAlbum"  -> <<"Album ID cannot be empty">>
      [] OTHER             -> <<"Song ID cannot be empty">>

\* A test that takes only the empty string for blank.
BaseIsBlankEmptyOnly(a) == ~Truthy(a)

\* !x || x.trim().length === 0
BaseIsBlank(a) == ~Truthy(a) \/ Len(Trim(a)) = 0

\* this.http.get(path, { params: { <name>: x.trim() } })
BaseRequest(o, a) ==
    [path |-> BaseOpPath(o), Cookie |-> NULL,
     params |-> [name |-> BaseOpParam(o), value |-> Trim(a)]]

\* parsed.success of the operation's safeParse (mp3ApiClient.ts lines 124,
\* 137, 154, 170, 183); the search parses payload?.songs ?? [].
BaseSchemaOk(o, payload) ==
    CASE o = "searchSongs" ->
           LET items == IF IsNullish(Get(payload, "songs")) THEN Arr(<<>>)
                        ELSE Get(payload, "songs")
           IN  /\ IsArray(items)
               /\ \A i \in DOMAIN items.kv : SongSchemaOk(items.kv[i][2])
      [] o = "fetchLyrics"    -> LyricSchemaOk(payload)
      [] o = "fetchStreaming" -> StreamingSchemaOk(payload)
      [] o = "fetchArtist"    -> payload.t = "obj" /\ ArtistSchemaOk(payload)
      [] o = "fetchAlbum"     -> payload.t = "obj" /\ AlbumSchemaOk(payload)

\* What an operation returns for the unwrapped payload (mp3ApiClient.ts
\* lines 123-187).
BaseNormalize(o, id, payload) ==
    CASE o = "searchSongs" ->
           LET items == IF IsNullish(Get(payload, "songs")) THEN Arr(<<>>)
                        ELSE Get(payload, "songs")
               ok == BaseSchemaOk(o, payload)
           IN  Obj(<< <<"songs",
                        IF ok
                        THEN Arr([i \in DOMAIN items.kv |->
                                      Pick(items.kv[i][2],
                                           <<"encodeId", "title",
                                             "artistsNames", "thumbnail",
                                             "duration">>)])
                        ELSE Arr(<<>>)>> >>)
      [] o = "fetchLyrics" ->
           LET ok == BaseSchemaOk(o, payload)
           IN  Obj(<< <<"songId", Str(Trim(id))>>,
                      <<"lyric", IF ok THEN Get(payload, "lyric") ELSE Undef>>,
                      <<"sentences",
                        IF ok THEN Get(payload, "sentences") ELSE Undef>> >>)
      [] o = "fetchStreaming" ->
           Obj(<< <<"songId", Str(Trim(id))>>,
                  <<"sources", IF BaseSchemaOk(o, payload) THEN payload
                               ELSE Obj(<<>>)>> >>)
      [] o = "fetchArtist" ->
           IF BaseSchemaOk(o, payload)
           THEN Pick(payload, <<"name", "alias", "thumbnail", "totalFollow">>)
           ELSE JNull
      [] o = "fetchAlbum" ->
           IF BaseSchemaOk(o, payload)
           THEN Pick(payload,
                     <<"encodeId", "title", "artistsNames", "thumbnail">>)
           ELSE JNull

\* An operation is called with the argument a: a blank argument throws at
\* once, any other is sent trimmed.
BaseCall(c, o, a) ==
    /\ pc[c] = "idle"
    /\ op' = [op EXCEPT ![c] = [tool |-> "none", name |-> o, arg |-> a]]
    /\ IF BaseIsBlank(a)
       THEN /\ pc' = [pc EXCEPT ![c] = "refused"]
            /\ outcome' = [outcome EXCEPT ![c] =
                               Err("validation", BaseEmptyText(o))]
            /\ UNCHANGED <<req, nApi>>
       ELSE /\ pc' = [pc EXCEPT ![c] = "api"]
            /\ req' = [req EXCEPT ![c] = BaseRequest(o, a)]
            /\ nApi' = [nApi EXCEPT ![c] = @ + 1]
            /\ UNCHANGED outcome
    /\ UNCHANGED <<cookie, clock, ctime, phase, attempt, delay, lcookie, last,
                   nAcq, nInval, setCookie, result, apiData, client>>

\* The request is answered with the body responseData: the operation
\* unwraps it and normalizes the payload, or throws what unwrapResponse
\* threw.  The text of the outcome of a call that returned is what it
\* wrote with console.warn (lines 125-127, 138-140, 155-157, 171-173,
\* 184-186), <<>> when it wrote nothing.
BaseRespond(c, responseData) ==
    /\ pc[c] = "api"
    /\ req' = [req EXCEPT ![c] = NoReq]
    /\ LET payload == unwrapResponse(responseData)
           o == op[c].name
           warning ==
               CASE o = "searchSongs" -> <<"Failed to parse search results:">>
                 [] o = "fetchLyrics" ->
                      <<"Failed to parse lyrics for song">> \o op[c].arg
                 [] o = "fetchStreaming" ->
                      <<"Failed to parse streaming sources for song">>
                      \o op[c].arg
                 [] o = "fetchArtist" ->
                      <<"Failed to parse artist data for">> \o op[c].arg
                 [] o = "fetchAlbum" ->
                      <<"Failed to parse album data for">> \o op[c].arg
       IN  IF payload.kind = "returned"
           THEN /\ pc' = [pc EXCEPT ![c] = "done"]
                /\ outcome' = [outcome EXCEPT ![c] =
                       [Ok(BaseNormalize(o, op[c].arg, payload.val))
                            EXCEPT !.text = IF BaseSchemaOk(o, payload.val)
                                            THEN <<>> ELSE warning]]
           ELSE /\ pc' = [pc EXCEPT ![c] = "failed"]
                /\ outcome' = [outcome EXCEPT ![c] =
                                   Err("envelope", payload.text)]
    /\ UNCHANGED <<cookie, clock, op, ctime, phase, attempt, delay, lcookie,
                   last, nAcq, nApi, nInval, setCookie, result, apiData,
                   client>>

\* The request throws: the operation throws the same Error.
BaseThrow(c, how) ==
    /\ pc[c] = "api"
    /\ req' = [req EXCEPT ![c] = NoReq]
    /\ pc' = [pc EXCEPT ![c] = "failed"]
    /\ outcome' = [outcome EXCEPT ![c] = Err("transport", <<how>>)]
    /\ UNCHANGED <<cookie, clock, op, ctime, phase, attempt, delay, lcookie,
                   last, nAcq, nApi, nInval, setCookie, result, apiData,
                   client>>

\* The bodies the base URL may answer with.
BaseBodies ==
    { Undef, JNull, Str(<<>>), Arr(<<>>), Obj(<<>>),
      Obj(<< <<"err", Num("0")>> >>),
      Obj(<< <<"err", Num("0")>>, <<"message", Str(<<"Success">>)>>,
             <<"data", Obj(<< <<"songs", Arr(<<SongX>>)>> >>)>> >>),
      Obj(<< <<"err", Num("0")>>, <<"data", JNull>> >>),
      Obj(<< <<"err", Num("0")>>, <<"songs", Arr(<<SongX>>)>> >>),
      Obj(<< <<"err", Num("-1")>>, <<"message", Str(<<"bad">>)>> >>),
      Obj(<< <<"err", Num("-1")>> >>),
      Obj(<< <<"err", Num("-1")>>, <<"message", Str(<<"bad">>)>>,
             <<"data", Obj(<< <<"songs", Arr(<<SongX>>)>> >>)>> >>),
      Obj(<< <<"err", Num("0")>>, <<"message", Str(<<"Success">>)>> >>),
      Obj(<< <<"err", Num("0")>>, <<"data", Str(<<>>)>> >>),
      Obj(<< <<"message", Str(<<"note">>)>>,
             <<"data", Obj(<< <<"songs", Arr(<<SongX>>)>> >>)>> >>),
      Obj(<< <<"songs", Arr(<< SongX, Obj(<< <<"title", Str(<<"U">>)>> >>) >>)>> >>),
      Obj(<< <<"lyric", Str(<<"la">>)>>, <<"extra", Num("1")>> >>),
      Obj(<< <<"lyric", Num("1")>> >>),
      Obj(<< <<"128", UrlA>>, <<"320", Str(<<>>)>> >>),
      Obj(<< <<"128", UrlA>>, <<"hq", Obj(<< <<"url", UrlB>> >>)>> >>),
      Obj(<< <<"name", Str(<<"N">>)>>, <<"totalFollow", Num("7")>> >>),
      Obj(<< <<"encodeId", Str(<<"A">>)>>, <<"title", Str(<<"T">>)>> >>) }

InitBase == InitClient /\ setCookie = <<>> /\ apiData \in BaseBodies

NextBase ==
    \/ \E c \in ToolCalls, o \in Ops, a \in ToolArgs : BaseCall(c, o, a)
    \/ \E c \in ToolCalls : BaseRespond(c, apiData)
    \/ \E c \in ToolCalls, how \in Throws : BaseThrow(c, how)

SpecBase == InitBase /\ [][NextBase]_vars

\* ------------------------------------------------ the multi-endpoint client

\* The client of src/unnamed/part_001, lines 122-524: it is constructed with
\* a base URL and tries the candidate endpoints of an operation one after
\* the other.  While a call runs, nApi is the number of endpoints it has
\* contacted, req the request in flight and last the list errors of
\* searchSongs.

\* The endpoints of operation o for the argument a, in the order of the
\* source (lines 247-254, 343-347, 382-386, 449-453, 488-492).
MultiEndpoints(o, a) ==
    LET E(path, name) ==
            [path |-> path, Cookie |-> NULL, params |-> << <<name, a>> >>]
    IN  CASE o = "searchSongs" ->
               << E("/search", "q"), E("/search", "keyword"),
                  E("/api/search", "q"), E("/api/v2/search/multi", "q"),
                  [path |-> "", Cookie |-> NULL,
                   params |-> << <<"q", a>>, <<"action", <<"search">>>> >>] >>
          [] o = "fetchLyrics" ->
               << E("/api/v2/lyric/get/lyric", "id"), E("/api/lyric", "id"),
                  E("/lyric", "id") >>
          [] o = "fetchStreaming" ->
               << E("/api/v2/song/get/streaming", "id"),
                  E("/api/streaming", "id"), E("/streaming", "id") >>
          [] o = "fetchArtist" ->
               << E("/api/v2/page/get/artist", "alias"),
                  E("/api/artist", "name"), E("/artist", "name") >>
          [] o = "fetchAlbum" ->
               << E("/api/v2/page/get/playlist", "id"), E("/api/album", "id"),
                  E("/album", "id") >>

\* unwrapResponse, part_001 lines 187-232.  The preview of the response
\* that the last Error quotes is written as the keys of the response.
unwrapResponseMulti(data) ==
    IF IsNullish(data)
    THEN ThrewError(MissingPayloadText)
    ELSE IF IsArray(data)
    THEN Returned(data)
    ELSE IF Has(data, "err")
    THEN LET err  == Get(data, "err")
             rest == Without(data, {"err", "message"})
         IN  IF err.t # "undef" /\ err # Num("0")
             THEN ThrewError(
                      IF JTruthy(Get(data, "message"))
                      THEN ToStr(Get(data, "message"))
                      ELSE <<"mp3-api error:">>
                           \o (IF err.t = "null" THEN <<"null">>
                               ELSE ToStr(err)))
             ELSE IF Has(data, "data") /\ ~IsNullish(Get(data, "data"))
             THEN Returned(Get(data, "data"))
             ELSE IF (err = Num("0") \/ err.t = "undef") /\ Len(rest.kv) > 0
             THEN Returned(rest)
             ELSE ThrewError(
                      <<"mp3-api response missing data payload. Response:">>
                      \o Keys(data))
    ELSE Returned(data)

\* An iteration of the loop over the endpoints that ends without a return:
\* by continue, by reaching the end of the loop body, or in the catch
\* block.  text is the message searchSongs adds to errors, without the
\* path it begins with.
Skipped(text) == [kind |-> "skipped", text |-> text, val |-> Undef]

\* The JSON texts an endpoint may answer with, and JSON.parse of each; the
\* text of a string that is none of them raises a SyntaxError.
JsonTexts ==
    { << <<"null">>, JNull >>,
      << <<"[]">>, Arr(<<>>) >>,
      << <<"{\"songs\":[{\"encodeId\":\"X\",\"title\":\"T\"}]}">>,
         Obj(<< <<"songs", Arr(<<SongX>>)>> >>) >> }

\* searchSongs, lines 263-328: one iteration of the loop, from the
\* unwrapped payload on.
MultiSearch(unwrapped) ==
    LET isText == unwrapped.t = "str"
        text == unwrapped.s
        isJson == \E e \in JsonTexts : e[1] = text
        payload == IF isText /\ isJson
                   THEN (CHOOSE e \in JsonTexts : e[1] = text)[2]
                   ELSE unwrapped
        IsList(v) == JTruthy(v) /\ IsArray(v)
        data == Get(payload, "data")
        songs ==
            IF IsArray(payload) THEN Items(payload)
            ELSE IF JTruthy(data)
            THEN IF IsArray(data) THEN Items(data)
                 ELSE IF IsList(Get(data, "songs"))
                 THEN Items(Get(data, "songs"))
                 ELSE IF IsList(Get(data, "items"))
                 THEN Items(Get(data, "items"))
                 ELSE IF IsList(Get(Get(data, "data"), "songs"))
                 THEN Items(Get(Get(data, "data"), "songs"))
                 ELSE IF IsList(Get(data, "data"))
                 THEN Items(Get(data, "data"))
                 ELSE <<>>
            ELSE IF IsList(Get(payload, "songs"))
            THEN Items(Get(payload, "songs"))
            ELSE IF IsList(Get(payload, "items"))
            THEN Items(Get(payload, "items"))
            ELSE <<>>
        Extract(song) ==
            [MapSong(song) EXCEPT !.kv[1] =
                 <<"encodeId",
                   Or(Or(Or(Get(song, "encodeId"), Get(song, "id")),
                         Get(song, "songId")), Str(<<>>))>>]
        extractedSongs ==
            SelectSeq([i \in DOMAIN songs |-> Extract(songs[i])], KeepSong)
    IN  IF isText /\ (\/ Includes(text, "<!DOCTYPE")
                      \/ Includes(text, "<html")
                      \/ text = <<"Home">>
                      \/ Trim(text) = <<>>)
        THEN Skipped(<<"Got invalid response:">> \o text)
        ELSE IF isText /\ ~isJson
        THEN Skipped(<<"Response is string but not JSON:">> \o text)
        ELSE IF Len(songs) = 0
        THEN Skipped(<<"No songs found in response">>)
        ELSE IF \A i \in DOMAIN songs : SongSchemaOk(songs[i])
        THEN Returned(Obj(<< <<"songs",
                 Arr([i \in DOMAIN songs |->
                          Pick(songs[i], <<"encodeId", "title", "artistsNames",
                                           "thumbnail", "duration">>)])>> >>))
        ELSE IF \E i \in DOMAIN songs : MapSongThrows(songs[i])
        THEN Skipped(TypeErrorText)
        ELSE IF Len(extractedSongs) > 0
        THEN Returned(Obj(<< <<"songs", Arr(extractedSongs)>> >>))
        ELSE Skipped(<<"No songs found in response">>)

\* fetchLyrics, fetchStreaming, fetchArtist and fetchAlbum, lines 354-367,
\* 393-435, 460-477 and 499-516: one iteration of the loop, from the
\* unwrapped payload on.  The mapping of an artist and of an album are
\* those of the signed client, applied to the payload.
MultiFetch(o, a, payload) ==
    CASE o = "fetchLyrics" ->
           LET lyricData == Or(Get(payload, "data"), payload)
           IN  IF LyricSchemaOk(lyricData)
               THEN Returned(Obj(<< <<"songId", Str(a)>>,
                                    <<"lyric", Get(lyricData, "lyric")>>,
                                    <<"sentences",
                                      Get(lyricData, "sentences")>> >>))
               ELSE Skipped(<<>>)
      [] o = "fetchStreaming" ->
           LET data == Get(payload, "data")
               sources ==
                   IF JTruthy(data)
                   THEN IF /\ JTruthy(Get(data, "streaming"))
                           /\ Get(data, "streaming").t \in {"obj", "arr"}
                        THEN Get(data, "streaming")
                        ELSE IF data.t = "obj" THEN data ELSE Obj(<<>>)
                   ELSE IF payload.t = "obj" THEN payload ELSE Obj(<<>>)
               filteredSources == Obj(StreamEntries(sources.kv))
           IN  IF Len(filteredSources.kv) > 0
               THEN Returned(Obj(<< <<"songId", Str(a)>>,
                                    <<"sources", filteredSources>> >>))
               ELSE Skipped(<<>>)
      [] o = "fetchArtist" ->
           LET parsed == fetchArtist(a, Ok(Bare(payload))).val
           IN  IF parsed # JNull THEN Returned(parsed) ELSE Skipped(<<>>)
      [] o = "fetchAlbum" ->
           LET parsed == fetchAlbum(a, Ok(Bare(payload))).val
           IN  IF parsed # JNull THEN Returned(parsed) ELSE Skipped(<<>>)

\* An operation is called: it contacts its first endpoint.
MultiCall(c, o, a) ==
    /\ pc[c] = "idle"
    /\ op' = [op EXCEPT ![c] = [tool |-> "none", name |-> o, arg |-> a]]
    /\ pc' = [pc EXCEPT ![c] = "api"]
    /\ req' = [req EXCEPT ![c] = MultiEndpoints(o, a)[1]]
    /\ nApi' = [nApi EXCEPT ![c] = 1]
    /\ last' = [last EXCEPT ![c] = [kind |-> "errors", val |-> <<>>]]
    /\ UNCHANGED <<cookie, clock, ctime, phase, attempt, delay, lcookie,
                   outcome, nAcq, nInval, setCookie, result, apiData, client>>

\* The iteration for the endpoint in flight ends as it says: the operation
\* returns, or goes on to the next endpoint, or, after the last one,
\* throws the collected errors (searchSongs, line 338) or returns its
\* result without data (lines 373-377, 441-444, 483, 522).
MultiSettle(c, it) ==
    LET o == op[c].name
        endpoints == MultiEndpoints(o, op[c].arg)
        errors == IF o = "searchSongs"
                  THEN Append(last[c].val, <<req[c].path, ":">> \o it.text)
                  ELSE last[c].val
    IN  /\ pc[c] = "api"
        /\ IF it.kind = "returned"
           THEN /\ pc' = [pc EXCEPT ![c] = "done"]
                /\ outcome' = [outcome EXCEPT ![c] = Ok(it.val)]
                /\ req' = [req EXCEPT ![c] = NoReq]
                /\ UNCHANGED <<nApi, last>>
           ELSE /\ last' = [last EXCEPT ![c].val = errors]
                /\ IF nApi[c] < Len(endpoints)
                   THEN /\ req' = [req EXCEPT ![c] = endpoints[nApi[c] + 1]]
                        /\ nApi' = [nApi EXCEPT ![c] = @ + 1]
                        /\ UNCHANGED <<pc, outcome>>
                   ELSE /\ req' = [req EXCEPT ![c] = NoReq]
                        /\ UNCHANGED nApi
                        /\ IF o = "searchSongs"
                           THEN /\ pc' = [pc EXCEPT ![c] = "failed"]
                                /\ outcome' = [outcome EXCEPT ![c] =
                                     Err("search",
                                         <<"Failed to search songs with keyword:">>
                                         \o op[c].arg \o <<"Errors:">>
                                         \o JoinItems([i \in DOMAIN errors |->
                                                Str(errors[i])], ";"))]
                           ELSE /\ pc' = [pc EXCEPT ![c] = "done"]
                                /\ outcome' = [outcome EXCEPT ![c] =
                                     Ok(CASE o = "fetchLyrics" ->
                                               Obj(<< <<"songId", Str(op[c].arg)>>,
                                                      <<"lyric", Undef>>,
                                                      <<"sentences", Undef>> >>)
                                          [] o = "fetchStreaming" ->
                                               Obj(<< <<"songId", Str(op[c].arg)>>,
                                                      <<"sources", Obj(<<>>)>> >>)
                                          [] OTHER -> JNull)]
        /\ UNCHANGED <<cookie, clock, op, ctime, phase, attempt, delay,
                       lcookie, nAcq, nInval, setCookie, result, apiData,
                       client>>

\* The endpoint in flight answers with the body data (lines 260-261,
\* 351-352, 390-391, 457-458, 496-497): what unwrapResponse throws is
\* caught like a failed request.
MultiRespond(c, data) ==
    LET unwrapped == unwrapResponseMulti(data)
    IN  MultiSettle(c,
            IF unwrapped.kind # "returned" THEN Skipped(unwrapped.text)
            ELSE IF op[c].name = "searchSongs" THEN MultiSearch(unwrapped.val)
            ELSE MultiFetch(op[c].name, op[c].arg, unwrapped.val))

\* The request to the endpoint in flight throws (lines 329-335, 368-370,
\* 436-438, 478-480, 517-519): with a response whose body is quoted, or
\* with the message of the Error.
MultiThrow(c, how) ==
    MultiSettle(c, Skipped(IF how = "status"
                           THEN <<"Status", "500:", "{}">>
                           ELSE <<"timeout of 10000ms exceeded">>))

\* The bodies an endpoint may answer with.
MultiBodies ==
    { JNull,
      Str(<<"Home">>),
      Str(<<"oops">>),
      Str(<<"{\"songs\":[{\"encodeId\":\"X\",\"title\":\"T\"}]}">>),
      Obj(<< <<"err", Num("-1")>>, <<"message", Str(<<"bad">>)>> >>),
      Obj(<< <<"err", Num("0")>> >>),
      Obj(<< <<"err", Num("0")>>, <<"msg", Str(<<"Success">>)>> >>),
      Obj(<< <<"err", Num("0")>>,
             <<"data", Obj(<< <<"songs", Arr(<<SongX>>)>> >>)>> >>),
      Obj(<< <<"err", Num("0")>>,
             <<"data", Obj(<< <<"items",
                   Arr(<< Obj(<< <<"id", Str(<<"I">>)>>,
                                 <<"name", Str(<<"T">>)>> >>) >>)>> >>)>> >>),
      Arr(<< Obj(<< <<"encodeId", Str(<<>>)>>, <<"title", Str(<<>>)>> >>) >>),
      Obj(<< <<"songs", Arr(<< SongX, Obj(<< <<"title", Str(<<"U">>)>>,
                                             <<"artists", Arr(<<JNull>>)>> >>) >>)>> >>),
      Obj(<< <<"data", Obj(<< <<"lyric", Str(<<"la">>)>>,
                              <<"sentences", Arr(<<>>)>> >>)>> >>),
      Obj(<< <<"err", Num("0")>>,
             <<"data", Obj(<< <<"streaming",
                   Obj(<< <<"128", UrlA>>, <<"320", Str(<<"vip">>)>> >>)>> >>)>> >>),
      Obj(<< <<"name", Str(<<"N">>)>>, <<"thumbnail", Num("1")>> >>),
      Obj(<< <<"encodeId", Str(<<"A">>)>>, <<"title", Str(<<"T">>)>> >>) }

NextMulti ==
    \/ \E c \in ToolCalls, o \in Ops, a \in {<<>>, <<"x">>} : MultiCall(c, o, a)
    \/ \E c \in ToolCalls, data \in MultiBodies : MultiRespond(c, data)
    \/ \E c \in ToolCalls, how \in Throws : MultiThrow(c, how)

SpecMulti == Init /\ [][NextMulti]_vars

\* ----------------------------------------------------------------- claims

Final == {"done", "failed"}

\* The failure codes and the phrase that make a response an
\* authentication failure.
ClaimAuthClass(b) ==
    /\ b.hasErr
    /\ b.err # 0
    /\ (b.err \in {-115, -113} \/ \E i \in DOMAIN b.msg : b.msg[i] = "loi")

ClaimFailure(b) == b.hasErr /\ b.err # 0

\* Call c's first API request settles in this step.
FirstSettles(c) == pc[c] = "api" /\ pc'[c] # "api" /\ phase[c] = "first"

\* Call c's API request, first or retry, settles in this step.
Settles(c) == pc[c] = "api" /\ pc'[c] # "api"

ProtocolError(c) == outcome[c].kind = "error" /\ outcome[c].body = "protocol"

TransportError(c) == outcome[c].kind = "error" /\ outcome[c].body = "transport"

CookieError(c) == outcome[c].kind = "error" /\ outcome[c].body = "cookie"

\* C1 as stated: a call whose first response was an authentication failure
\* ends having cleared the credential exactly once and having sent exactly
\* one further API request, two in all.
C1_ExactlyOneRetry ==
    \A c \in Calls :
        (phase[c] = "retry" /\ pc[c] \in Final) =>
            (nInval[c] = 1 /\ nApi[c] = 2)

\* C1, amended: an authentication failure of the first response clears the
\* credential exactly once and starts a re-acquisition; the call then sends
\* at most one further API request -- exactly one when the re-acquisition
\* yields a credential, none when it is exhausted, and then the call fails
\* -- and returns the retry response's body or fails.  There is never a
\* third API request nor a second invalidation.
C1_AtMostOneRetry ==
    /\ [](\A c \in Calls :
            /\ nApi[c] <= 2
            /\ nInval[c] <= 1
            /\ (phase[c] = "retry") <=> (nInval[c] = 1)
            /\ (phase[c] = "retry" /\ pc[c] \in Final) =>
                   (nApi[c] = 2 \/ (nApi[c] = 1 /\ CookieError(c)))
            /\ (phase[c] = "retry" /\ pc[c] = "done") =>
                   (nApi[c] = 2 /\ outcome[c].body = last[c].val))
    /\ [][\A c \in Calls :
            (FirstSettles(c) /\ last'[c].kind = "body"
                 /\ ClaimAuthClass(last'[c].val)) =>
                (/\ cookie' = NULL
                 /\ nInval'[c] = nInval[c] + 1
                 /\ phase'[c] = "retry"
                 /\ pc'[c] = "acq")]_vars

\* C1's case: a call that was rejected, retried and got the retry's body.
C1_Witness ==
    \E c \in Calls :
        /\ phase[c] = "retry" /\ pc[c] = "done"
        /\ nApi[c] = 2 /\ nInval[c] = 1

\* C2: every API request in flight carries the sig computed from the ctime
\* it carries.
C2_SigMatchesCtime ==
    \A c \in Calls :
        pc[c] = "api" =>
            req[c].params.sig =
                OpSig(op[c].name, op[c].arg, req[c].params.ctime)

\* C3: a first response with a non-zero err that is no authentication
\* failure fails the call at once with a protocol error: no retry request,
\* no acquisition request, the cached credential untouched.
C3_NonAuthFailsAtOnce ==
    /\ [](\A c \in Calls :
            (pc[c] = "failed" /\ phase[c] = "first") =>
                (nApi[c] <= 1 /\ nInval[c] = 0))
    /\ [][\A c \in Calls :
            (FirstSettles(c) /\ last'[c].kind = "body"
                 /\ ClaimFailure(last'[c].val)
                 /\ ~ClaimAuthClass(last'[c].val)) =>
                (/\ pc'[c] = "failed"
                 /\ ProtocolError(c)'
                 /\ nApi' = nApi
                 /\ nAcq' = nAcq
                 /\ nInval' = nInval
                 /\ cookie' = cookie)]_vars

\* C3's case: a call failed by its first response.
C3_Witness ==
    \E c \in Calls :
        /\ pc[c] = "failed" /\ phase[c] = "first" /\ ProtocolError(c)
        /\ last[c].kind = "body" /\ ~ClaimAuthClass(last[c].val)
        /\ nApi[c] = 1 /\ Truthy(cookie)

\* C4: an API request that throws fails the call with an upstream error;
\* the step sends no request of any kind and leaves the cached credential
\* as it is, and a failed call sends nothing more.
C4_TransportFailure ==
    [][\A c \in Calls :
        /\ (Settles(c) /\ last'[c].kind = "throw") =>
              (/\ pc'[c] = "failed"
               /\ TransportError(c)'
               /\ cookie' = cookie
               /\ nApi' = nApi
               /\ nAcq' = nAcq
               /\ nInval' = nInval)
        /\ pc[c] = "failed" =>
              (pc'[c] = "failed" /\ nApi'[c] = nApi[c] /\ nAcq'[c] = nAcq[c])]_vars

\* C4's case: a call failed by a throwing request while a credential is
\* cached.
C4_Witness ==
    \E c \in Calls :
        /\ pc[c] = "failed" /\ last[c].kind = "throw" /\ TransportError(c)
        /\ Truthy(cookie)

IsPart(m, text) ==
    \E i \in 0..(Len(text) - Len(m)) : SubSeq(text, i + 1, i + Len(m)) = m

CarriesCode(text, b) == \E i \in DOMAIN text : text[i] = ErrStr(b.err)

\* The retry of call c was answered with a non-zero err.
RetryRejected(c) ==
    /\ pc[c] = "failed" /\ phase[c] = "retry" /\ nApi[c] = 2
    /\ last[c].kind = "body" /\ ClaimFailure(last[c].val)

\* C5 as stated: the error of a rejected retry carries the upstream message
\* and the upstream code.
C5_MessageAndCode ==
    \A c \in Calls :
        RetryRejected(c) =>
            LET b == last[c].val
                m == IF b.msg # <<>> THEN b.msg ELSE b.message
            IN  /\ ProtocolError(c)
                /\ IsPart(m, outcome[c].text)
                /\ CarriesCode(outcome[c].text, b)

\* C5, amended: the error of a rejected retry is a protocol error whose
\* text is the upstream msg when there is one, else the upstream message
\* when there is one, and carries the upstream code only when the body has
\* neither.
C5_MessageOrCode ==
    \A c \in Calls :
        RetryRejected(c) =>
            LET b == last[c].val
            IN  /\ ProtocolError(c)
                /\ b.msg # <<>> => outcome[c].text = b.msg
                /\ (b.msg = <<>> /\ b.message # <<>>) =>
                       outcome[c].text = b.message
                /\ (b.msg = <<>> /\ b.message = <<>>) =>
                       CarriesCode(outcome[c].text, b)

\* C5's case: a retry rejected with a message, and one rejected without.
C5_Witness ==
    \E c, d \in Calls :
        /\ RetryRejected(c) /\ last[c].val.msg # <<>>
        /\ last[c].val.message # <<>>
        /\ RetryRejected(d) /\ last[d].val.msg = <<>>
        /\ last[d].val.message = <<>>

\* C6: the credential is acquired lazily and then served from the cache.
\* While no operation has been called no acquisition request has been sent
\* and the cache is empty; an operation called while the cache holds a
\* credential gets exactly that credential from getCookie, sends no
\* acquisition request and leaves the cache as it is, and the API request
\* it then sends carries that credential.
C6_LazyThenCached ==
    [][\A c \in Calls :
        /\ (\A d \in Calls : pc[d] = "idle") =>
              (cookie = NULL /\ \A d \in Calls : nAcq[d] = 0)
        /\ (pc[c] = "idle" /\ pc'[c] # "idle" /\ cookie # NULL) =>
              (/\ pc'[c] = "gotCookie"
               /\ lcookie'[c] = cookie
               /\ nAcq'[c] = 0
               /\ cookie' = cookie)
        /\ (pc[c] = "gotCookie" /\ pc'[c] = "api") =>
              req'[c].Cookie = lcookie[c]]_vars

\* C6's case: a call served from the cache after another call's
\* acquisition.
C6_Witness ==
    \E c, d \in Calls :
        /\ c # d /\ pc[d] = "done"
        /\ pc[c] = "api" /\ phase[c] = "first" /\ nAcq[c] = 0
        /\ req[c].Cookie = cookie /\ Truthy(cookie)

AttemptFails(c) ==
    /\ pc[c] = "acq"
    /\ pc'[c] # "gotCookie"
    /\ (pc'[c] # "acq" \/ attempt'[c] # attempt[c])

\* C8: every failed attempt but the third is followed by a wait of
\* 1s times the attempt's number before the next attempt is sent, whether
\* the request threw or the response had no usable header; the third is
\* followed by none.
C8_BackoffAfterEveryFailure ==
    [][\A c \in Calls :
        AttemptFails(c) =>
            IF attempt[c] < 3
            THEN pc'[c] = "backoff" /\ delay'[c] = 1000 * attempt[c]
                 /\ nAcq'[c] = nAcq[c]
            ELSE pc'[c] = "failed" /\ delay'[c] = 0]_vars

HasSeparator(s) == \E i \in DOMAIN s : s[i] \in {"=", ";"}

\* t is s without its leading and trailing blanks, and is not empty.
TrimmedOf(s, t) ==
    \E i, j \in DOMAIN s :
        /\ i <= j
        /\ t = SubSeq(s, i, j)
        /\ s[i] # " " /\ s[j] # " "
        /\ \A k \in DOMAIN s : (k < i \/ k > j) => s[k] = " "

\* C9 as stated: the cached credential contains '=' or ';' and is more than
\* 10 characters long.
C9_WellFormed ==
    cookie # NULL => (HasSeparator(cookie) /\ Len(cookie) > 10)

\* C9, amended: the cached credential is always an entry of the response's
\* set-cookie list with the surrounding blanks trimmed, and never empty.
\* The test for '=' or ';' and a length above 10 is made by the heuristic
\* scan alone, on the untrimmed entry, and the scan runs only when the
\* entries at index 1 and index 0 are both empty: only then is the
\* credential known to contain '=' or ';'.
C9_TrimmedEntry ==
    cookie # NULL =>
        /\ \E i \in DOMAIN setCookie : TrimmedOf(setCookie[i], cookie)
        /\ (\A i \in DOMAIN setCookie : i <= 2 => setCookie[i] = <<>>) =>
               \E i \in DOMAIN setCookie :
                   /\ TrimmedOf(setCookie[i], cookie)
                   /\ HasSeparator(cookie)
                   /\ Len(setCookie[i]) > 10

\* C9's case: a cached credential that fails the test.
C9_Witness ==
    /\ cookie = HdrShort
    /\ Len(setCookie) = 2 /\ setCookie[2] = HdrShort /\ setCookie[1] = HdrSid

\* C10: the entry stored is the one at index 1 when the list has a
\* non-empty entry there, otherwise the one at index 0 when that is not
\* empty, otherwise the first entry that passes the heuristic scan; what is
\* stored is that entry with the surrounding blanks trimmed.
C10_SelectionOrder ==
    cookie # NULL =>
        LET h == setCookie
            hasOne  == Len(h) >= 2 /\ h[2] # <<>>
            hasZero == Len(h) >= 1 /\ h[1] # <<>>
            Scanned(i) == HasSeparator(h[i]) /\ Len(h[i]) > 10
        IN  /\ hasOne => TrimmedOf(h[2], cookie)
            /\ (~hasOne /\ hasZero) => TrimmedOf(h[1], cookie)
            /\ (~hasOne /\ ~hasZero) =>
                   \E i \in DOMAIN h :
                       /\ Scanned(i)
                       /\ \A j \in 1..(i - 1) : ~Scanned(j)
                       /\ TrimmedOf(h[i], cookie)

\* C10's case: the entry at index 1 wins over a usable entry at index 0 and
\* is stored trimmed.
C10_Witness ==
    /\ cookie # NULL /\ cookie # HdrSid
    /\ Len(setCookie) = 3
    /\ setCookie[1] = HdrShort /\ setCookie[2] = HdrSid
    /\ \A c \in SelectCalls : pc[c] = "gotCookie"

\* The credentials an acquisition can store: a whole entry of a header
\* list of the web root, trimmed.
WholeCredentials ==
    UNION {{Trim(h[i]) : i \in DOMAIN h} : h \in WebRootHeaders} \ {<<>>}

\* Call c's acquisition completes in this step.
Acquires(c) == pc[c] = "acq" /\ pc'[c] = "gotCookie"

\* C11: calls that find the cache empty each acquire on their own; every
\* acquisition that completes replaces the cache by the credential it
\* resolves with, so the cache holds the value of the acquisition that
\* completed last; the cache changes in no other way than by such a write
\* or by an invalidation, and it is always empty or one whole credential.
C11_LastWriterWins ==
    /\ [](cookie = NULL \/ cookie \in WholeCredentials)
    /\ []((\A c \in Calls : pc[c] = "gotCookie" /\ phase[c] = "first"
                            /\ nAcq[c] >= 1) =>
              \E c \in Calls : cookie = lcookie[c])
    /\ [][\A c \in Calls :
            Acquires(c) =>
                (cookie' = lcookie'[c] /\ cookie' \in WholeCredentials)]_vars
    /\ [][cookie' # cookie =>
            \/ cookie' = NULL /\ \E c \in Calls : nInval'[c] = nInval[c] + 1
            \/ \E c \in Calls : Acquires(c) /\ cookie' = lcookie'[c]]_vars

\* C11's case: two calls that both acquired, with different credentials;
\* the cache holds one of the two, whole.
C11_Witness ==
    /\ \A c \in Calls : pc[c] = "gotCookie" /\ phase[c] = "first"
                        /\ nAcq[c] >= 1
    /\ \E c, d \in Calls :
          lcookie[c] # lcookie[d] /\ cookie = lcookie[d] /\ cookie # NULL

\* The tool's answer is an error result: its JSON text has the key error.
IsErrorResult(r) == r.type = "text" /\ Has(r.text, "error")

\* The argument is empty or holds blanks only.
ArgBlank(a) == \A i \in DOMAIN a : a[i] = " "

Ended == {"done", "failed", "refused"}

\* C12: a call whose dispatcher failed with a transport or a protocol
\* error answers the tool caller with an error result, whatever the
\* operation.
C12_FailureSurfaces ==
    \A c \in Calls :
        (pc[c] = "failed" /\ (TransportError(c) \/ ProtocolError(c))) =>
            IsErrorResult(result[c])

\* C13: a tool called with an empty or blank argument sends no request,
\* neither for a credential nor to the API, and answers with an error
\* result.
C13_BlankRejected ==
    \A c \in Calls :
        (pc[c] # "idle" /\ ArgBlank(op[c].arg)) =>
            (nAcq[c] = 0 /\ nApi[c] = 0 /\ IsErrorResult(result[c]))

\* C14: in the base-URL client an operation called with an empty or blank
\* argument throws a validation error and sends no request; called with
\* any other argument it sends one request, whose parameter is the
\* argument without its surrounding blanks.
C14_BaseValidation ==
    \A c \in Calls :
        pc[c] # "idle" =>
            IF ArgBlank(op[c].arg)
            THEN /\ pc[c] = "refused"
                 /\ nApi[c] = 0
                 /\ req[c].path = "none"
                 /\ outcome[c].kind = "error"
                 /\ outcome[c].body = "validation"
            ELSE /\ nApi[c] = 1
                 /\ pc[c] # "refused"
                 /\ pc[c] = "api" =>
                        TrimmedOf(op[c].arg, req[c].params.value)

\* C14's case: an argument with surrounding blanks, sent trimmed.
C14_Witness ==
    \E c \in Calls :
        /\ pc[c] = "api" /\ op[c].name = "fetchAlbum"
        /\ op[c].arg = <<" ", "x", " ">>
        /\ req[c].params.value = <<"x">>

\* The word list m begins the string v.
BeginsWith(v, m) ==
    v.t = "str" /\ Len(v.s) >= Len(m) /\ SubSeq(v.s, 1, Len(m)) = m

C16_NoSourceIsError ==
    \A c \in Calls :
        (/\ op[c].tool = "play_song" /\ pc[c] \in Final
         /\ \/ Get(result[c].text, "selected").t = "null"
            \/ Len(Get(result[c].text, "sources").kv) = 0) =>
            IsErrorResult(result[c])

\* The first of the preferred keys that the map has.
FirstPreferred(src) ==
    IF Has(src, "lossless") THEN "lossless"
    ELSE IF Has(src, "320") THEN "320"
    ELSE IF Has(src, "m4a") THEN "m4a"
    ELSE "128"

\* C17: the entry play_song selects from sources that hold a preferred key
\* is that of the first key of lossless, 320, m4a, 128 that sources holds,
\* with the value stored under it.
C17_PreferredOrder ==
    \A c \in Calls :
        (op[c].tool = "play_song" /\ pc[c] = "done") =>
            LET src == Get(result[c].text, "sources")
                sel == Get(result[c].text, "selected")
            IN  (\E k \in {"lossless", "320", "m4a", "128"} : Has(src, k)) =>
                    sel = Obj(<< <<"quality", Str(<<FirstPreferred(src)>>)>>,
                                 <<"url", Get(src, FirstPreferred(src))>> >>)

\* C17's case: sources that iterate 320 first and hold lossless too.
C17_Witness ==
    \E c \in Calls :
        /\ op[c].tool = "play_song" /\ pc[c] = "done"
        /\ Keys(Get(result[c].text, "sources")) = <<"320", "lossless">>
        /\ Get(Get(result[c].text, "selected"), "quality") = Str(<<"lossless">>)

\* C18: play_song selects nothing if and only if sources is empty.
C18_NullIffEmpty ==
    \A c \in Calls :
        (op[c].tool = "play_song" /\ pc[c] = "done") =>
            (Get(result[c].text, "selected").t = "null"
                 <=> Len(Get(result[c].text, "sources").kv) = 0)

\* The value begins with http:// or https://.
UrlString(v) == v.t = "str" /\ v.s # <<>> /\ v.s[1] \in {"http://", "https://"}

\* C19: the sources fetchStreaming returns hold exactly the keys of the
\* payload whose value is a URL string or an object with a URL string
\* under url, each with that URL, in the payload's order; every value of
\* sources is a URL string.  A payload that is no object has no such key.
C19_SourcesFiltered ==
    \A c \in Calls :
        (op[c].name = "fetchStreaming" /\ pc[c] = "done") =>
            LET src == Get(result[c].text, "sources")
                Usable(v) == UrlString(v) \/ UrlString(Get(v, "url"))
                kept == SelectSeq(apiData.kv, LAMBDA e : Usable(e[2]))
            IN  /\ src.t = "obj"
                /\ \A i \in DOMAIN src.kv : UrlString(src.kv[i][2])
                /\ IF apiData.t = "obj"
                   THEN /\ Keys(src) = [i \in DOMAIN kept |-> kept[i][1]]
                        /\ \A i \in DOMAIN kept :
                              src.kv[i][2] = IF kept[i][2].t = "str"
                                             THEN kept[i][2]
                                             ELSE Get(kept[i][2], "url")
                   ELSE src.kv = <<>>

\* C19's case: a payload of two entries of which one, an object with a
\* url, is kept and the other dropped.
C19_Witness ==
    \E c \in Calls :
        /\ op[c].tool = "get_song_streams" /\ pc[c] = "done"
        /\ Len(apiData.kv) = 2
        /\ apiData.kv[1][2].t = "str" /\ apiData.kv[2][2].t = "obj"
        /\ Keys(Get(result[c].text, "sources")) = <<apiData.kv[2][1]>>

\* The payload is null or lacks every field an entity is read from.
LacksFields(v) ==
    \/ v.t = "null"
    \/ /\ v.t = "obj"
       /\ \A k \in {"data", "songs", "name", "alias", "encodeId", "id",
                    "title"} : ~Has(v, k)

\* C20: for a payload that is null, empty or lacks the required fields a
\* search answers with an empty song list, and find_artist and get_album
\* answer null.
C20_EmptyPayloadDegrades ==
    \A c \in Calls :
        (pc[c] = "done" /\ LacksFields(apiData)) =>
            CASE op[c].tool = "search_songs" ->
                   result[c].text = Obj(<< <<"songs", Arr(<<>>)>> >>)
              [] op[c].tool \in {"find_artist", "get_album"} ->
                   result[c].text = JNull
              [] OTHER -> TRUE

\* The payload keys a field of a normalized entity may be read from.
FieldSources(f) ==
    CASE f = "encodeId"     -> {"encodeId", "id", "songId"}
      [] f = "title"        -> {"title", "name"}
      [] f = "artistsNames" -> {"artistsNames", "artists"}
      [] f = "thumbnail"    -> {"thumbnail", "thumb", "thumbnailM"}
      [] f = "name"         -> {"name", "alias"}
      [] f = "alias"        -> {"alias", "name"}
      [] f = "totalFollow"  -> {"totalFollow", "followers"}
      [] OTHER              -> {f}

\* C21: every field a returned Artist, Album or Song holds was read from
\* the payload: the payload entity (for a song, some item of the payload's
\* list) holds one of the keys that field is read from.  No field is
\* filled from the request argument or from a default.
C21_NeverGuessed ==
    \A c \in Calls :
        (pc[c] = "done" /\ apiData.t = "obj" /\ ~Has(apiData, "data")) =>
            LET e == result[c].text
                FromPayload(f, p) == \E k \in FieldSources(f) : Has(p, k)
            IN  CASE op[c].tool \in {"find_artist", "get_album"} ->
                       e.t = "obj" =>
                           \A i \in DOMAIN e.kv : FromPayload(e.kv[i][1], apiData)
                  [] op[c].tool = "search_songs" ->
                       Has(e, "songs") =>
                           \A i \in DOMAIN Get(e, "songs").kv :
                               LET song == Get(e, "songs").kv[i][2]
                                   items == Get(apiData, "songs").kv
                               IN  \A j \in DOMAIN song.kv :
                                       \E n \in DOMAIN items :
                                           FromPayload(song.kv[j][1], items[n][2])
                  [] OTHER -> TRUE

\* C22: a search answered with {data: {songs: [...]}} returns, in the
\* payload's order, exactly the items that yield a non-empty id and a
\* non-empty title, each with that id and title, and never an error.
C22_DroppedOneByOne ==
    \A c \in Calls :
        (/\ op[c].tool = "search_songs" /\ pc[c] = "done"
         /\ ~last[c].val.bare /\ IsArray(Get(apiData, "songs"))) =>
            LET Id(p)    == Or(Get(p, "encodeId"), Get(p, "id"))
                Title(p) == Or(Get(p, "title"), Get(p, "name"))
                valid == SelectSeq(Items(Get(apiData, "songs")),
                                   LAMBDA p : JTruthy(Id(p)) /\ JTruthy(Title(p)))
                songs == Get(result[c].text, "songs")
            IN  /\ IsArray(songs)
                /\ Len(songs.kv) = Len(valid)
                /\ \A i \in DOMAIN valid :
                      /\ Get(songs.kv[i][2], "encodeId") = Id(valid[i])
                      /\ Get(songs.kv[i][2], "title") = Title(valid[i])

\* The song list of a raw response under the accepted shapes: an array
\* itself; otherwise the object reached by descending into data, at most
\* twice, is the payload, and the list is the payload itself when it is an
\* array, or its songs.
AcceptedSongs(raw) ==
    LET Unwrap(v) == IF IsArray(v) \/ ~Has(v, "data") THEN v ELSE Get(v, "data")
        payload   == Unwrap(Unwrap(raw))
    IN  IF IsArray(payload) THEN Items(payload)
        ELSE IF IsArray(Get(payload, "songs"))
        THEN Items(Get(payload, "songs"))
        ELSE <<>>

\* C23: a search of the signed client returns the songs of the list held
\* under any accepted shape of the response: as many songs as the list has
\* items with an id and a title, the first with the first such item's id
\* and title.
C23_EveryShape ==
    \A c \in Calls :
        (op[c].tool = "search_songs" /\ pc[c] = "done") =>
            LET list  == AcceptedSongs(Response(last[c].val))
                valid == SelectSeq(list, LAMBDA p : KeepSong(MapSong(p)))
                songs == Get(result[c].text, "songs")
            IN  (\A i \in DOMAIN list : ~MapSongThrows(list[i])) =>
                    /\ IsArray(songs)
                    /\ Len(songs.kv) = Len(valid)
                    /\ valid # <<>> =>
                           /\ Get(songs.kv[1][2], "encodeId")
                                  = Get(MapSong(valid[1]), "encodeId")
                           /\ Get(songs.kv[1][2], "title")
                                  = Get(MapSong(valid[1]), "title")

\* C24: a search answered with {data: {songs: [...]}} keeps every item
\* that has a title and carries its identifier under encodeId, id or
\* songId, with the first non-empty of the three as its id.
C24_IdFallbackChain ==
    \A c \in Calls :
        (/\ op[c].tool = "search_songs" /\ pc[c] = "done"
         /\ ~last[c].val.bare /\ IsArray(Get(apiData, "songs"))
         /\ IsArray(Get(result[c].text, "songs"))) =>
            LET items == Items(Get(apiData, "songs"))
                songs == Items(Get(result[c].text, "songs"))
                Id(p) == Or(Or(Get(p, "encodeId"), Get(p, "id")),
                            Get(p, "songId"))
            IN  \A i \in DOMAIN items :
                    (JTruthy(Id(items[i])) /\ JTruthy(Get(items[i], "title"))) =>
                        \E j \in DOMAIN songs :
                            /\ Get(songs[j], "encodeId") = Id(items[i])
                            /\ Get(songs[j], "title") = Get(items[i], "title")

\* C25: every API request in flight goes to the path of its operation in
\* the interface table, carries the argument under the table's parameter
\* name, and is signed over that same path: search and artist with the
\* variant over ctime and version only, lyrics, streaming and album with
\* the variant over ctime, id and version, the id being the value sent.
C25_SignatureVariant ==
    \A c \in Calls :
        pc[c] = "api" =>
            LET r == req[c]
                o == op[c].name
            IN  /\ r.path = CASE o = "searchSongs"    -> "/api/v2/search/multi"
                              [] o = "fetchLyrics"    -> "/api/v2/lyric/get/lyric"
                              [] o = "fetchStreaming" -> "/api/v2/song/get/streaming"
                              [] o = "fetchArtist"    -> "/api/v2/page/get/artist"
                              [] o = "fetchAlbum"     -> "/api/v2/page/get/playlist"
                /\ r.params.name = CASE o = "searchSongs" -> "q"
                                     [] o = "fetchArtist" -> "alias"
                                     [] OTHER             -> "id"
                /\ r.params.value = op[c].arg
                /\ r.params.sig =
                       IF o \in {"searchSongs", "fetchArtist"}
                       THEN getHmac512(<<r.path,
                                getHash256(<<"ctime=", ctime[c],
                                             "version=", VERSION>>)>>, SECRET_KEY)
                       ELSE getHmac512(<<r.path,
                                getHash256(<<"ctime=", ctime[c], "id=",
                                             r.params.value,
                                             "version=", VERSION>>)>>, SECRET_KEY)

\* C25's case: an artist request in flight whose alias is not empty, and
\* whose signature is not the one over that alias.
C25_Witness ==
    \E c \in Calls :
        /\ pc[c] = "api" /\ op[c].name = "fetchArtist" /\ op[c].arg = <<"x">>
        /\ req[c].params.sig # hashParam(req[c].path, <<"x">>, ctime[c])

Exhausts(c) == pc[c] = "acq" /\ pc'[c] \notin {"acq", "backoff", "gotCookie"}

\* C27 as stated: the step that exhausts call c's acquisition sends no API
\* request, ends the call with an error and leaves the cache empty; every
\* API request in flight carries a credential.
C27_ExhaustedLeavesEmpty ==
    /\ [][\A c \in Calls :
            Exhausts(c) =>
                /\ pc'[c] = "failed" /\ outcome'[c].kind = "error"
                /\ req'[c] = NoReq /\ nApi'[c] = nApi[c]
                /\ cookie' = NULL]_vars
    /\ [](\A c \in Calls : pc[c] = "api" => Truthy(req[c].Cookie))

\* C27, amended: the step that exhausts call c's acquisition comes after 3
\* attempts, sends no API request (the call has sent none when its first
\* acquisition is exhausted, and the one rejected request when the
\* re-acquisition of its retry is), ends the call with the acquisition
\* error and does not write the cache, which is empty unless another call
\* has acquired a credential; every API request in flight carries a whole
\* credential.
C27_ExhaustedStoresNothing ==
    /\ [][\A c \in Calls :
            Exhausts(c) =>
                /\ nAcq[c] = 3
                /\ pc'[c] = "failed" /\ outcome'[c].kind = "error"
                /\ outcome'[c].text = CookieFailText
                /\ req'[c] = NoReq /\ nApi'[c] = nApi[c]
                /\ nApi[c] = IF phase[c] = "first" THEN 0 ELSE 1
                /\ cookie' = cookie
                /\ cookie' # NULL => \E d \in Calls \ {c} : nAcq[d] >= 1]_vars
    /\ [](\A c \in Calls :
            pc[c] = "api" => req[c].Cookie \in WholeCredentials)

\* C27's case: a call whose re-acquisition was exhausted after its one
\* request, while the cache holds the credential of the other call.
C27_Witness ==
    \E c \in Calls :
        /\ pc[c] = "failed" /\ CookieError(c)
        /\ phase[c] = "retry" /\ nApi[c] = 1
        /\ cookie # NULL

\* Call c's tool handler is entered in this step.
Enters(c) == pc[c] = "idle" /\ pc'[c] # "idle"

\* C28: the client is constructed by the first tool call and kept from
\* then on; every later call, whatever its tool, works on that client's
\* cache: entered while the cache holds a credential it takes that
\* credential and acquires nothing, and it leaves the cache as it is.  The
\* cache holds nothing or one whole credential, and it changes only by
\* being cleared or by being set to the credential an acquisition has just
\* obtained.
C28_OneSharedCache ==
    /\ [](client <=> \E c \in Calls : pc[c] # "idle")
    /\ [][client => client']_vars
    /\ [][\A c \in Calls :
            Enters(c) =>
                /\ cookie' = cookie
                /\ cookie # NULL =>
                       (pc'[c] = "gotCookie" /\ lcookie'[c] = cookie
                        /\ nAcq'[c] = 0)]_vars
    /\ [](cookie = NULL \/ cookie \in WholeCredentials)
    /\ [][cookie' # cookie =>
            \/ cookie' = NULL
            \/ /\ cookie' \in WholeCredentials
               /\ \E c \in Calls : Acquires(c) /\ lcookie'[c] = cookie']_vars

\* C28's case: a call of one tool has ended, and a call of another tool,
\* entered afterwards, sends its request with the credential the first
\* acquired, having acquired nothing itself.
C28_Witness ==
    \E c, d \in Calls :
        /\ pc[c] = "done" /\ nAcq[c] >= 1
        /\ pc[d] = "api" /\ nAcq[d] = 0 /\ phase[d] = "first"
        /\ op[c].tool # op[d].tool
        /\ req[d].Cookie = cookie

\* C29: when an API response, to a first attempt or to a retry, reports an
\* authentication-class error, the credential that request was sent with
\* is not in the cache once the response has been handled.
C29_RejectedIsInvalidated ==
    [][\A c \in Calls :
          (/\ Settles(c) /\ last'[c].kind = "body"
           /\ ClaimAuthClass(last'[c].val)) =>
              cookie' # req[c].Cookie]_vars

\* C30: a call of the base-URL client whose request was answered has
\* unwrapped the body b as follows.  A null or undefined body fails with
\* the missing-payload error.  A body that is no object with the key err
\* is the payload, unchanged.  An envelope with a non-zero err fails, with
\* the upstream message when there is one and with a text that names the
\* code when there is none.  An envelope with err 0 yields
\* its data when that is neither null nor absent; otherwise its fields
\* other than err and message when there are any; otherwise it fails with
\* the missing-payload error.  The call fails with unwrapResponse's Error,
\* or returns what the operation makes of the payload.
C30_Unwrap ==
    \A c \in Calls :
        (pc[c] = "done" \/ (pc[c] = "failed" /\ outcome[c].body = "envelope")) =>
            LET b    == apiData
                rest == SelectSeq(b.kv, LAMBDA e : e[1] \notin {"err", "message"})
                Fails(text) ==
                    /\ pc[c] = "failed" /\ outcome[c].kind = "error"
                    /\ outcome[c].text = text
                Yields(payload) ==
                    /\ unwrapResponse(b) = Returned(payload)
                    /\ pc[c] = "done"
                    /\ outcome[c].body = BaseNormalize(op[c].name, op[c].arg,
                                                        payload)
            IN  IF b.t \in {"null", "undef"}
                THEN Fails(<<"mp3-api response missing data payload">>)
                ELSE IF ~Has(b, "err") THEN Yields(b)
                ELSE IF Get(b, "err") # Num("0")
                THEN /\ pc[c] = "failed" /\ outcome[c].kind = "error"
                     /\ outcome[c].text =
                            IF Has(b, "message") THEN Get(b, "message").s
                            ELSE <<"mp3-api responded with error code:">>
                                 \o Get(b, "err").s
                ELSE IF Get(b, "data").t \notin {"null", "undef"}
                THEN Yields(Get(b, "data"))
                ELSE IF rest # <<>> THEN Yields(Obj(rest))
                ELSE Fails(<<"mp3-api response missing data payload">>)

\* C30's case: a search answered with {err: 0, songs: [...]}, an envelope
\* without data, returns the song found at the root.
C30_Witness ==
    \E c \in Calls :
        /\ pc[c] = "done" /\ op[c].name = "searchSongs"
        /\ Has(apiData, "err") /\ ~Has(apiData, "data")
        /\ Len(Get(outcome[c].body, "songs").kv) = 1

\* C31: a call of the base-URL client whose body was unwrapped returns,
\* whatever the payload: a search, a list of songs that each have a string
\* id and title, empty when an item of the payload's list lacks them; a
\* lyric result with the trimmed argument as songId and a lyric that is a
\* string or unknown, unknown with the sentences when the payload's lyric
\* is no string; a streaming result with the trimmed argument as songId and
\* sources whose values are all strings, empty when the payload holds
\* another value or is no object; an artist or album that has its string
\* name, or id and title, and null when the payload lacks them.  A result
\* degraded for its shape comes with a warning, one that is not comes
\* without; no call fails for the shape of its payload.
C31_SchemaMismatchDegrades ==
    \A c \in Calls :
        /\ pc[c] = "failed" => outcome[c].body \in {"envelope", "transport"}
        /\ pc[c] = "done" =>
            LET p == unwrapResponse(apiData).val
                r == outcome[c].body
                o == op[c].name
                IsStr(v) == v.t = "str"
                Bad ==
                    CASE o = "searchSongs" ->
                           \/ Get(p, "songs").t \notin {"undef", "null", "arr"}
                           \/ \E i \in DOMAIN Get(p, "songs").kv :
                                 LET it == Get(p, "songs").kv[i][2]
                                 IN  ~IsStr(Get(it, "encodeId"))
                                         \/ ~IsStr(Get(it, "title"))
                      [] o = "fetchLyrics" ->
                           p.t # "obj" \/ Get(p, "lyric").t \notin {"undef", "str"}
                      [] o = "fetchStreaming" ->
                           p.t # "obj" \/ \E i \in DOMAIN p.kv : ~IsStr(p.kv[i][2])
                      [] o = "fetchArtist" -> ~IsStr(Get(p, "name"))
                      [] o = "fetchAlbum" ->
                           ~IsStr(Get(p, "encodeId")) \/ ~IsStr(Get(p, "title"))
                Degraded ==
                    CASE o = "searchSongs" -> Obj(<< <<"songs", Arr(<<>>)>> >>)
                      [] o = "fetchLyrics" ->
                           Obj(<< <<"songId", Str(Trim(op[c].arg))>>,
                                  <<"lyric", Undef>>, <<"sentences", Undef>> >>)
                      [] o = "fetchStreaming" ->
                           Obj(<< <<"songId", Str(Trim(op[c].arg))>>,
                                  <<"sources", Obj(<<>>)>> >>)
                      [] OTHER -> JNull
            IN  /\ Bad => (r = Degraded /\ outcome[c].text # <<>>)
                /\ ~Bad => outcome[c].text = <<>>
                /\ o \in {"fetchLyrics", "fetchStreaming"} =>
                       Get(r, "songId") = Str(Trim(op[c].arg))
                /\ o = "fetchStreaming" =>
                       \A i \in DOMAIN Get(r, "sources").kv :
                           IsStr(Get(r, "sources").kv[i][2])
                /\ o = "fetchLyrics" => Get(r, "lyric").t \in {"undef", "str"}
                /\ o = "searchSongs" =>
                       \A i \in DOMAIN Get(r, "songs").kv :
                           /\ IsStr(Get(Get(r, "songs").kv[i][2], "encodeId"))
                           /\ IsStr(Get(Get(r, "songs").kv[i][2], "title"))

\* C31's case: a streaming call with blanks around its argument whose
\* payload holds a value that is no string: it returns the trimmed songId
\* with empty sources and has warned.
C31_Witness ==
    \E c \in Calls :
        /\ pc[c] = "done" /\ op[c].name = "fetchStreaming"
        /\ op[c].arg = <<" ", "x", " ">>
        /\ Has(apiData, "hq")
        /\ outcome[c].body = Obj(<< <<"songId", Str(<<"x">>)>>,
                                    <<"sources", Obj(<<>>)>> >>)
        /\ outcome[c].text # <<>>

\* C32: the step in which call c handles an authentication-class error of
\* its first attempt clears the cache and starts an acquisition of c's own,
\* whatever other calls are doing; until that acquisition completes c
\* holds no credential, and only c's own acquisition gives it one; the
\* retry request carries the credential that acquisition obtained.
C32_RetryCredentialIsFresh ==
    /\ [][\A c \in Calls :
            nInval'[c] # nInval[c] =>
                /\ cookie' = NULL /\ lcookie'[c] = NULL
                /\ pc'[c] = "acq" /\ nAcq'[c] = 1 /\ phase'[c] = "retry"]_vars
    /\ [](\A c \in Calls :
            (phase[c] = "retry" /\ pc[c] \in {"acq", "backoff"}) =>
                lcookie[c] = NULL)
    /\ [][\A c \in Calls :
            (phase[c] = "retry" /\ lcookie[c] = NULL /\ lcookie'[c] # NULL) =>
                (Acquires(c) /\ lcookie'[c] \in WholeCredentials)]_vars
    /\ [](\A c \in Calls :
            (phase[c] = "retry" /\ pc[c] = "api") =>
                (req[c].Cookie = lcookie[c] /\ nAcq[c] >= 1))

\* C32's case: a retry in flight with the credential its call acquired,
\* while the other call, which overwrote the cache since, is in flight
\* with another.
C32_Witness ==
    \E c, d \in Calls :
        /\ phase[c] = "retry" /\ pc[c] = "api" /\ pc[d] = "api"
        /\ req[c].Cookie # req[d].Cookie
        /\ cookie = req[d].Cookie

\* C33 as stated: a call that has received the authentication-class error
\* of its first attempt never waits before its retry request is sent.
C33_NoWaitBeforeRetry ==
    \A c \in Calls : phase[c] = "retry" => (pc[c] # "backoff" /\ delay[c] = 0)

\* C33, amended: the dispatcher adds no wait of its own.  The step that
\* handles the error response sends the first request of the
\* re-acquisition; a wait begins only when an acquisition request has
\* thrown with attempts left, and lasts 1000 ms times the number of that
\* attempt; no wait is pending when the credential is there and the
\* request is sent.
C33_OnlyAcquisitionWaits ==
    /\ [][\A c \in Calls :
            nInval'[c] # nInval[c] =>
                (pc'[c] = "acq" /\ nAcq'[c] = 1 /\ delay'[c] = 0)]_vars
    /\ [][\A c \in Calls :
            (pc'[c] = "backoff" /\ pc[c] # "backoff") =>
                /\ pc[c] = "acq" /\ attempt[c] < 3
                /\ delay'[c] = 1000 * attempt[c]]_vars
    /\ [](\A c \in Calls : pc[c] # "backoff" => delay[c] = 0)

\* C33's case: a call waits between the error response of its first
\* attempt and its retry, after an acquisition request of the refresh has
\* thrown.
C33_Witness ==
    \E c \in Calls :
        /\ phase[c] = "retry" /\ nApi[c] = 1
        /\ pc[c] = "backoff" /\ delay[c] = 1000

\* C34: the step in which call c receives a first response whose err is
\* absent or 0 ends the call: requestZingMp3 returns that body as it was
\* decoded, the call has sent this one API request and sends no other, it
\* has invalidated nothing, and the step leaves the cache as it finds it.
C34_SuccessFrame ==
    /\ [][\A c \in Calls :
            (/\ FirstSettles(c) /\ last'[c].kind = "body"
             /\ ~ClaimFailure(last'[c].val)) =>
                /\ pc'[c] = "done"
                /\ outcome'[c] = [kind |-> "ok", text |-> <<>>,
                                  body |-> last'[c].val]
                /\ nApi[c] = 1 /\ nApi'[c] = 1 /\ nInval'[c] = 0
                /\ cookie' = cookie]_vars
    /\ [](\A c \in Calls :
            (pc[c] = "done" /\ phase[c] = "first") =>
                (nApi[c] = 1 /\ nInval[c] = 0 /\ req[c] = NoReq))

\* C34's case: a call answered {err: 0, msg: "Success", data: ...} at its
\* first attempt has returned that body, and the cache holds the
\* credential the request was sent with.
C34_Witness ==
    \E c \in Calls :
        /\ pc[c] = "done" /\ phase[c] = "first" /\ nApi[c] = 1
        /\ outcome[c].kind = "ok"
        /\ outcome[c].body = Body(TRUE, 0, <<"Success">>, <<>>, MainPayload)
        /\ cookie # NULL

\* C35: the step in which call c invalidates clears from the cache nothing
\* but the credential that c's rejected request was sent with.
C35_InvalidatesOwnCredentialOnly ==
    [][\A c \in Calls :
          nInval'[c] # nInval[c] =>
              (cookie = NULL \/ cookie = req[c].Cookie)]_vars

\* C36: while a call runs it has sent at most 2 API requests and at most 3
\* acquisition requests in each of its at most 2 credential fetches; every
\* call that has started ends, with requestZingMp3 having returned or
\* thrown, and stays ended.
C36_Terminates ==
    /\ [](\A c \in Calls :
            /\ nApi[c] <= 2 /\ nAcq[c] <= 3 /\ nInval[c] <= 1
            /\ phase[c] = "retry" <=> nInval[c] = 1)
    /\ \A c \in Calls : (pc[c] # "idle") ~> (pc[c] \in Final)
    /\ \A c \in Calls :
          [](pc[c] \in Final =>
                 /\ outcome[c].kind \in {"ok", "error"}
                 /\ [](pc[c] \in Final))

\* C36's case: a call that ended after 2 API requests, the second sent
\* after a re-acquisition of 3 requests.
C36_Witness ==
    \E c \in Calls :
        /\ pc[c] \in Final /\ nApi[c] = 2 /\ nAcq[c] = 3 /\ phase[c] = "retry"

\* C37: an acquisition attempt whose response holds at least one non-blank
\* set-cookie entry stores a credential: the step that handles the response
\* ends with the credential in hand, never with a failed attempt.
C37_FallsBackToUsable ==
    [][\A c \in SelectCalls :
          (/\ AcqRespond(c, setCookie)
           /\ \E i \in DOMAIN setCookie : Len(Trim(setCookie[i])) > 0)
          => (pc'[c] = "gotCookie" /\ cookie' # NULL)]_vars

\* C38: in the LyricResult that fetchLyrics returns, lyric is a string or
\* undefined and sentences is an array or undefined, whether or not the
\* payload passes lyricSchema.
C38_LyricResultTyped ==
    \A c \in Calls :
        (pc[c] \in Final /\ op[c].name = "fetchLyrics") =>
            LET r == fetchLyrics(op[c].arg, outcome[c]).val
            IN  /\ Get(r, "lyric").t \in {"undef", "str"}
                /\ Get(r, "sentences").t \in {"undef", "arr"}

\* The operations of the multi-endpoint client that return a result
\* without data when no endpoint serves them.
FetchOps == {"fetchLyrics", "fetchStreaming", "fetchArtist", "fetchAlbum"}

\* C39: fetchLyrics, fetchStreaming, fetchArtist and fetchAlbum of the
\* multi-endpoint client contact their endpoints in the listed order, one
\* at a time; they return at the first endpoint whose answer is accepted
\* and contact none after it; they go on to the next endpoint when the
\* request or the unwrapping throws; they never throw; and the result
\* without data (undefined lyric, empty sources, null) is returned only
\* after all three endpoints were contacted.
C39_FallbackInOrder ==
    /\ [](\A c \in ToolCalls : op[c].name \in FetchOps =>
            LET o == op[c].name
                a == op[c].arg
                degraded ==
                    CASE o = "fetchLyrics" ->
                           {r \in {outcome[c].body} :
                                Get(r, "lyric").t = "undef"}
                      [] o = "fetchStreaming" ->
                           {r \in {outcome[c].body} :
                                Get(r, "sources") = Obj(<<>>)}
                      [] OTHER -> {JNull}
            IN  /\ pc[c] # "failed"
                /\ pc[c] = "api" =>
                       /\ nApi[c] \in 1..Len(MultiEndpoints(o, a))
                       /\ req[c] = MultiEndpoints(o, a)[nApi[c]]
                /\ (pc[c] = "done" /\ outcome[c].body \in degraded) =>
                       nApi[c] = Len(MultiEndpoints(o, a)))
    /\ [][\A c \in ToolCalls : (op[c].name \in FetchOps /\ pc[c] = "api") =>
            /\ nApi'[c] \in {nApi[c], nApi[c] + 1}
            /\ pc'[c] = "api" => nApi'[c] = nApi[c] + 1
            /\ pc'[c] = "done" => (nApi'[c] = nApi[c] /\ req'[c] = NoReq)
            /\ \A data \in MultiBodies :
                  (/\ MultiRespond(c, data)
                   /\ unwrapResponseMulti(data).kind # "returned"
                   /\ nApi[c] < Len(MultiEndpoints(op[c].name, op[c].arg)))
                  => pc'[c] = "api"
            /\ \A how \in Throws :
                  (/\ MultiThrow(c, how)
                   /\ nApi[c] < Len(MultiEndpoints(op[c].name, op[c].arg)))
                  => pc'[c] = "api"]_vars
    /\ [][\A c \in ToolCalls :
            pc[c] \in Final => (nApi'[c] = nApi[c] /\ req'[c] = req[c])]_vars

\* C40: searchSongs of the multi-endpoint client never returns an empty
\* list: it returns at the first endpoint whose answer holds a song with a
\* non-empty id and title, with the songs of that endpoint, so that the
\* list it returns holds such a song; when none of the five endpoints
\* serves one it throws one Error whose message joins one message per
\* endpoint.
C40_SongsOrAggregateError ==
    /\ [](\A c \in ToolCalls : op[c].name = "searchSongs" =>
            /\ pc[c] = "done" =>
                   LET songs == Items(Get(outcome[c].body, "songs"))
                   IN  /\ Len(songs) > 0
                       /\ \E i \in DOMAIN songs : KeepSong(songs[i])
            /\ pc[c] = "failed" =>
                   /\ nApi[c] = 5
                   /\ Len(last[c].val) = 5
                   /\ outcome[c].text =
                          <<"Failed to search songs with keyword:">>
                          \o op[c].arg \o <<"Errors:">>
                          \o JoinItems([i \in 1..5 |-> Str(last[c].val[i])],
                                       ";"))
    /\ [][\A c \in ToolCalls, data \in MultiBodies :
            (/\ op[c].name = "searchSongs"
             /\ MultiRespond(c, data)
             /\ LET payload == unwrapResponseMulti(data)
                    list == IF payload.kind # "returned" THEN <<>>
                            ELSE IF IsArray(payload.val)
                            THEN Items(payload.val)
                            ELSE IF IsArray(Get(payload.val, "songs"))
                            THEN Items(Get(payload.val, "songs"))
                            ELSE <<>>
                IN  \E i \in DOMAIN list :
                       /\ JTruthy(Get(list[i], "encodeId"))
                       /\ JTruthy(Get(list[i], "title")))
            => pc'[c] = "done"]_vars

====
